---- MODULE Spec2Model ----
(***************************************************************************)
(* The gallery application's HTTP API as a state machine: the artwork and  *)
(* tag collections (MongoDB through mongoose), the object store (S3) and   *)
(* the route handlers, each handler cut into one step per awaited database *)
(* or object-store call so that concurrent requests interleave.            *)
(* Beside the server: the paginated listing on a collection at rest, the   *)
(* server under database failures, the dashboard's batch upload and its    *)
(* artwork list, the connection cache of connectDB, the public gallery     *)
(* page, the artwork detail page, and the session callback with the two    *)
(* admin scripts.                                                          *)
(***************************************************************************)
EXTENDS Integers, Sequences, FiniteSets, TLC

VARIABLES
    tags,       \* the Tag collection: a set of [id, label, type]
    artworks,   \* the Artwork collection: a set of artwork documents
    store,      \* the object store: the set of keys holding an object
    nextTagId,  \* the next fresh Tag _id
    nextArtId,  \* the next fresh Artwork _id
    req,        \* per request: the handler running, its position, its locals
    wrote,      \* per request: has it changed a collection or the store
    listed,     \* the responses of GET /api/gallery, in the order they were given
    dash,       \* the dashboard page in the browser: its submit handler and state
    mongo,      \* lib/mongodb.ts: the connection cache and the connectDB calls
    gal,        \* the public gallery page in the browser
    detail,     \* the artwork detail page in the browser
    auth        \* the users, the profiles, the sessions and the admin scripts

vars ==
    <<tags, artworks, store, nextTagId, nextArtId, req, wrote, listed, dash, mongo,
      gal, detail, auth>>

db == <<tags, artworks, store>>

----------------------------------------------------------------------------
(* Bounds of the model *)

NumRequests == 2    \* requests the server receives, interleaved in any order
MaxTags == 5        \* Tag _ids ever allocated
MaxArtworks == 2    \* Artwork _ids ever allocated
MaxGets == 2        \* GET /api/gallery responses that are recorded
MaxPage == 3        \* the page parameter ranges over 1..MaxPage
MaxLimit == 2       \* the limit parameter ranges over 1..MaxLimit
MaxListed == 3      \* artworks in the collection that is listed
MaxFiles == 3       \* files selected for one dashboard submission
MaxSubmits == 2     \* dashboard submissions
MaxCalls == 5       \* calls of connectDB
MaxShown == 26      \* artworks on show in the public gallery
MaxSelects == 2     \* changes of the gallery's filter
MaxFetches == 5     \* requests the gallery page sends
MaxHeld == 41       \* artworks the dashboard lists
MaxLoads == 5       \* requests the dashboard's list sends
MaxReloads == 2     \* reloads of the dashboard's list after an edit
MaxSeen == 13       \* artworks in the collection the detail page browses
MaxNavs == 2        \* navigations on the detail page
MaxUsers == 3       \* users who have signed in
MaxSessions == 3    \* sessions that are looked at
MaxRuns == 3        \* runs of the admin scripts

Slots == 1..NumRequests
TagIds == 1..MaxTags
ArtIds == 1..MaxArtworks

(* Program constants *)

NameMax == 60       \* Artwork.name maxlength, also sanitizeFilename's slice
\* ITEMS_PER_PAGE of the public gallery page, and of the dashboard
GalleryItemsPerPage == 12
ITEMS_PER_PAGE == 20
\* limit of GET /api/gallery when the request names none
DefaultLimit == 12
DescMax == 255      \* Artwork.description maxlength

Types == {"category", "medium", "size"}
Roles == {"none", "user", "admin"}   \* no session, session of a non-admin, of an admin

(* Inputs: strings are sequences of characters; <<>> and "" are the falsy   *)
(* values (missing form field, empty string).                               *)

Labels == {"a", "b"}
LabelInputs == Labels \cup {""}
FormLabels(type) ==
    IF type = "category" THEN {"a"} ELSE IF type = "medium" THEN {"a", "b"} ELSE {"c"}
FormInputs(type) == FormLabels(type) \cup {""}
TypeInputs == Types \cup {""}

Rep(c, n) == [i \in 1..n |-> c]

TitleAB == <<"a", "b">>
TitleLong == Rep("a", NameMax + 1)
Titles == {TitleAB, TitleLong}
TitleInputs == Titles \cup {<<>>}
FileNames == {<<"a", "-", "b", ".", "p", "n", "g">>}
DescLong == Rep("d", DescMax + 1)
DescInputs == {<<>>, DescLong}

----------------------------------------------------------------------------
(* lib/utils.ts: sanitizeFilename *)

Max(S) == CHOOSE x \in S : \A y \in S : y <= x

\* filename.replace(/\.[^/.]+$/, "")
RemoveExt(f) ==
    LET dots == {i \in 1..Len(f) : f[i] = "."}
    IN  IF dots = {} THEN f
        ELSE LET i == Max(dots)
             IN  IF i < Len(f) /\ \A j \in (i + 1)..Len(f) : f[j] # "/"
                 THEN SubSeq(f, 1, i - 1)
                 ELSE f

\* .slice(0, 60)
Truncate(f) == SubSeq(f, 1, IF Len(f) < NameMax THEN Len(f) ELSE NameMax)

IsSpace(c) == c = " "
AlnumHyphen == {"a", "b", "d", "p", "n", "g", "A", "-"}
Lower(c) == IF c = "A" THEN "a" ELSE c

\* .replace(/\s+/g, "-")
RECURSIVE SpacesToHyphen(_)
SpacesToHyphen(f) ==
    IF f = <<>> THEN <<>>
    ELSE IF IsSpace(Head(f))
         THEN IF Len(f) > 1 /\ IsSpace(f[2])
              THEN SpacesToHyphen(Tail(f))
              ELSE <<"-">> \o SpacesToHyphen(Tail(f))
         ELSE <<Head(f)>> \o SpacesToHyphen(Tail(f))

\* .replace(/[^a-zA-Z0-9-]/g, "").toLowerCase()
RECURSIVE StripLower(_)
StripLower(f) ==
    IF f = <<>> THEN <<>>
    ELSE IF Head(f) \in AlnumHyphen
         THEN <<Lower(Head(f))>> \o StripLower(Tail(f))
         ELSE StripLower(Tail(f))

sanitizeFilename(f) == StripLower(SpacesToHyphen(Truncate(RemoveExt(f)))) \o <<".webp">>

\* `genacourtney/images/${filename}`
ImageKey(filename) == <<"genacourtney/images/">> \o filename

\* `genacourtney/images/thumbnails/${filename.replace(".webp", "-thumbnail.webp")}`
ThumbnailKey(filename) ==
    <<"genacourtney/images/thumbnails/">>
        \o [i \in 1..Len(filename) |->
              IF i = Len(filename) /\ filename[i] = ".webp"
              THEN "-thumbnail.webp" ELSE filename[i]]

\* `https://${bucket}.s3.${region}.amazonaws.com/${key}`
UrlOf(key) == <<"https://bucket.s3.region.amazonaws.com/">> \o key

\* new URL(url).pathname.slice(1)
getKeyFromUrl(url) == Tail(url)

----------------------------------------------------------------------------
(* models/Tag.ts and models/Artwork.ts: what the database enforces *)

\* label: { unique: true }
LabelIndexOK(ts) == \A t1, t2 \in ts : t1.label = t2.label => t1 = t2

\* TagSchema.index({ label: 1, type: 1 }, { unique: true })
PairIndexOK(ts) ==
    \A t1, t2 \in ts : (t1.label = t2.label /\ t1.type = t2.type) => t1 = t2

NoTagIndexes(ts) == TRUE

\* a write to the Tag collection is accepted iff no unique index is violated
TagIndexesOK(ts) == LabelIndexOK(ts) /\ PairIndexOK(ts)

NoNameIndex(as) == TRUE

\* name: { unique: true }
NameIndexOK(as) == \A a1, a2 \in as : a1.name = a2.name => a1 = a2

NoValidation(a) == TRUE

\* the maxlength validators, run by Artwork.create (document validation)
ArtworkValid(a) == Len(a.name) <= NameMax /\ Len(a.description) <= DescMax

TagById(id) == {t \in tags : t.id = id}
ArtById(id) == {a \in artworks : a.id = id}
FindTag(label, type) == {t \in tags : t.label = label /\ t.type = type}

\* populate("categories medium size"): the label a reference resolves to, "" if none
LabelOfRef(id) == IF TagById(id) = {} THEN "" ELSE (CHOOSE t \in TagById(id) : TRUE).label

\* a || b || c on strings
Or2(a, b) == IF a # "" THEN a ELSE b
Or3(a, b, c) == Or2(a, Or2(b, c))
OrSeq(a, b) == IF a # <<>> THEN a ELSE b

----------------------------------------------------------------------------
(* Requests *)

NoEx == [name |-> <<>>, desc |-> <<>>, cat |-> "", med |-> "", size |-> ""]

Fresh ==
    [h |-> "idle", pc |-> "idle", sess |-> "none", status |-> 0,
     id |-> 0, title |-> <<>>, file |-> <<>>, lab |-> "", typ |-> "",
     c |-> 0, m |-> 0, z |-> 0, ex |-> NoEx, newId |-> 0, s3err |-> FALSE,
     err |-> ""]

\* what is left of a request once it is answered
Finish(r, st) ==
    [Fresh EXCEPT !.h = r.h, !.pc = "done", !.sess = r.sess, !.status = st,
                  !.id = r.id, !.newId = r.newId, !.s3err = r.s3err]

SetReq(s, r) == req' = [req EXCEPT ![s] = r]
Respond(s, st) == SetReq(s, Finish(req[s], st))

\* the exception leaves the handler: the handler itself answers nothing
Unhandled(s, e) == SetReq(s, [Finish(req[s], 0) EXCEPT !.err = e])

\* an exception reaches the handler's catch: logged, answered 500
Throw(s, e) == SetReq(s, [Finish(req[s], 500) EXCEPT !.err = e])
At(s, h, pc) == req[s].h = h /\ req[s].pc = pc

\* requests are numbered in the order in which they arrive
CanBegin(s) == req[s].pc = "idle" /\ \A r \in Slots : r < s => req[r].pc # "idle"

\* the ghost of a request: did any of its steps change the data
W(s) ==
    /\ wrote' = [wrote EXCEPT ![s] = @ \/ db' # db]
    /\ UNCHANGED <<listed, dash, mongo, gal, detail, auth>>

\* the browser with no page open, the connection cache before any call,
\* nobody signed in
NoDash == [pc |-> "closed"]
NoMongo == [conn |-> 0, promise |-> 0]
NoGal == [pc |-> "closed"]
NoDetail == [pc |-> "closed"]
NoAuth == [pc |-> "closed"]

\* what a successful upload of TitleAB with no labels leaves behind
SeedTags ==
    {[id |-> 1, label |-> "Uncategorized", type |-> "category"],
     [id |-> 2, label |-> "Mixed Media", type |-> "medium"],
     [id |-> 3, label |-> "Various", type |-> "size"]}

SeedArtwork ==
    [id |-> 1, name |-> TitleAB, description |-> <<>>,
     src |-> UrlOf(ImageKey(sanitizeFilename(TitleAB))),
     thumbSrc |-> UrlOf(ThumbnailKey(sanitizeFilename(TitleAB))),
     categories |-> <<1>>, medium |-> 2, size |-> 3]

SeedStore ==
    {ImageKey(sanitizeFilename(TitleAB)), ThumbnailKey(sanitizeFilename(TitleAB))}

\* the server starts on an empty database, or on the one an earlier upload left
Init ==
    /\ \/ /\ tags = {}
          /\ artworks = {}
          /\ store = {}
          /\ nextTagId = 1
          /\ nextArtId = 1
       \/ /\ tags = SeedTags
          /\ artworks = {SeedArtwork}
          /\ store = SeedStore
          /\ nextTagId = 4
          /\ nextArtId = 2
    /\ req = [s \in Slots |-> Fresh]
    /\ wrote = [s \in Slots |-> FALSE]
    /\ listed = <<>>
    /\ gal = NoGal /\ detail = NoDetail /\ auth = NoAuth
    /\ dash = NoDash
    /\ mongo = NoMongo

----------------------------------------------------------------------------
(* lib/auth.ts *)

AuthSkipsSession(sess) == IF sess = "user" THEN 403 ELSE 0

\* checkAdminRole: the status it answers with, 0 when it returns null
checkAdminRole(sess) ==
    IF sess = "none" THEN 401
    ELSE IF sess # "admin" THEN 403
    ELSE 0

\* const session = await getServerSession(authOptions); if (!session) return 401
sessionCheck(sess) == IF sess = "none" THEN 401 ELSE 0

----------------------------------------------------------------------------
(* Database and object-store calls shared by the handlers *)

\* Tag.findOneAndUpdate({label, type}, {label, type}, {upsert: true, new: true})
\* by request s, the _id kept in local `field`; a duplicate key throws (500)
Upsert(s, label, type, field, nextpc) ==
    IF FindTag(label, type) # {}
    THEN /\ SetReq(s, [req[s] EXCEPT ![field] = (CHOOSE t \in FindTag(label, type) : TRUE).id,
                                     !.pc = nextpc])
         /\ UNCHANGED <<tags, nextTagId>>
    ELSE LET t == [id |-> nextTagId, label |-> label, type |-> type]
         IN  IF TagIndexesOK(tags \cup {t})
             THEN /\ nextTagId <= MaxTags
                  /\ tags' = tags \cup {t}
                  /\ nextTagId' = nextTagId + 1
                  /\ SetReq(s, [req[s] EXCEPT ![field] = t.id, !.pc = nextpc])
             ELSE /\ Throw(s, "DuplicateKey")
                  /\ UNCHANGED <<tags, nextTagId>>

\* s3Client.send(new PutObjectCommand({Key: key})): TRUE when it succeeds
PutObject(key, ok) == store' = IF ok THEN store \cup {key} ELSE store

\* Artwork.create(doc): validation, then the insert under the unique index
CreateArtwork(s, doc) ==
    IF ~ArtworkValid(doc)
    THEN Throw(s, "ValidationError") /\ UNCHANGED <<artworks, nextArtId>>
    ELSE IF ~NameIndexOK(artworks \cup {doc})
    THEN Throw(s, "DuplicateKey") /\ UNCHANGED <<artworks, nextArtId>>
    ELSE /\ nextArtId <= MaxArtworks
         /\ artworks' = artworks \cup {doc}
         /\ nextArtId' = nextArtId + 1
         /\ SetReq(s, Finish([req[s] EXCEPT !.newId = doc.id], 200))

\* Artwork.findByIdAndUpdate(id, set, {new: true}): no validators run; the unique
\* index still applies
UpdateArtwork(s, id, new) ==
    IF ArtById(id) = {}
    THEN Respond(s, 404) /\ UNCHANGED artworks
    ELSE LET as == (artworks \ ArtById(id)) \cup {new}
         IN  IF NameIndexOK(as)
             THEN artworks' = as /\ Respond(s, 200)
             ELSE Throw(s, "DuplicateKey") /\ UNCHANGED artworks

----------------------------------------------------------------------------
(* app/api/gallery/route.ts, POST (the handler that uploads image and thumbnail) *)

\* checkAdminRole, the form data, sanitizeFilename, createThumbnail
UploadPOST_Begin(s) ==
    /\ CanBegin(s)
    /\ \E sess \in Roles, hasFile \in BOOLEAN, parses \in BOOLEAN, thumbOk \in BOOLEAN,
          batch \in BOOLEAN, title \in TitleInputs, fname \in FileNames :
         LET r == [Fresh EXCEPT !.h = "UploadPOST", !.sess = sess]
         IN  IF checkAdminRole(sess) # 0 THEN SetReq(s, Finish(r, checkAdminRole(sess)))
             ELSE IF ~hasFile \/ ~parses THEN SetReq(s, Finish(r, 400))
             ELSE IF ~thumbOk THEN SetReq(s, [Finish(r, 500) EXCEPT !.err = "sharp"])
             ELSE SetReq(s, [r EXCEPT !.pc = "s3image",
                                     !.title = OrSeq(title, RemoveExt(fname)),
                                     !.file = sanitizeFilename(
                                                IF batch THEN fname ELSE OrSeq(title, fname))])
    /\ UNCHANGED <<tags, artworks, store, nextTagId, nextArtId>>
    /\ W(s)

\* uploadToS3(buffer, key): false is answered 500 "Failed to upload"
UploadPOST_Image(s) ==
    /\ At(s, "UploadPOST", "s3image")
    /\ \E ok \in BOOLEAN :
         /\ PutObject(ImageKey(req[s].file), ok)
         /\ IF ok THEN SetReq(s, [req[s] EXCEPT !.pc = "s3thumb"]) ELSE Throw(s, "upload")
    /\ UNCHANGED <<tags, artworks, nextTagId, nextArtId>>
    /\ W(s)

\* uploadToS3(thumbnailBuffer, thumbnailKey)
UploadPOST_Thumbnail(s) ==
    /\ At(s, "UploadPOST", "s3thumb")
    /\ \E ok \in BOOLEAN :
         /\ PutObject(ThumbnailKey(req[s].file), ok)
         /\ IF ok THEN SetReq(s, [req[s] EXCEPT !.pc = "cat"]) ELSE Throw(s, "upload")
    /\ UNCHANGED <<tags, artworks, nextTagId, nextArtId>>
    /\ W(s)

UploadPOST_Category(s) ==
    /\ At(s, "UploadPOST", "cat")
    /\ \E l \in FormInputs("category") : Upsert(s, Or2(l, "Uncategorized"), "category", "c", "med")
    /\ UNCHANGED <<artworks, store, nextArtId>>
    /\ W(s)

UploadPOST_Medium(s) ==
    /\ At(s, "UploadPOST", "med")
    /\ \E l \in FormInputs("medium") : Upsert(s, Or2(l, "Mixed Media"), "medium", "m", "size")
    /\ UNCHANGED <<artworks, store, nextArtId>>
    /\ W(s)

UploadPOST_Size(s) ==
    /\ At(s, "UploadPOST", "size")
    /\ \E l \in FormInputs("size") : Upsert(s, Or2(l, "Various"), "size", "z", "create")
    /\ UNCHANGED <<artworks, store, nextArtId>>
    /\ W(s)

UploadPOST_Create(s) ==
    /\ At(s, "UploadPOST", "create")
    /\ \E d \in DescInputs :
         CreateArtwork(s, [id |-> nextArtId, name |-> req[s].title, description |-> d,
                           src |-> UrlOf(ImageKey(req[s].file)),
                           thumbSrc |-> UrlOf(ThumbnailKey(req[s].file)),
                           categories |-> <<req[s].c>>, medium |-> req[s].m,
                           size |-> req[s].z])
    /\ UNCHANGED <<tags, store, nextTagId>>
    /\ W(s)

----------------------------------------------------------------------------
(* app/api/gallery/route.ts, POST (the handler the dashboard calls) *)

TitleIsEnough(title, image) == title = <<>>

\* if (!title || !image): <<>> is the form field that is missing
MissingTitleOrImage(title, image) == title = <<>> \/ image = <<>>

\* checkAdminRole, the session, the form data: title and image are required
GalleryPOST_Begin(s) ==
    /\ CanBegin(s)
    /\ \E sess \in Roles, image \in FileNames \cup {<<>>}, title \in TitleInputs :
         LET r == [Fresh EXCEPT !.h = "GalleryPOST", !.sess = sess]
         IN  IF checkAdminRole(sess) # 0 THEN SetReq(s, Finish(r, checkAdminRole(sess)))
             ELSE IF sessionCheck(sess) # 0 THEN SetReq(s, Finish(r, sessionCheck(sess)))
             ELSE IF MissingTitleOrImage(title, image) THEN SetReq(s, Finish(r, 400))
             ELSE SetReq(s, [r EXCEPT !.pc = "cat", !.title = title, !.file = image])
    /\ UNCHANGED <<tags, artworks, store, nextTagId, nextArtId>>
    /\ W(s)

GalleryPOST_Category(s) ==
    /\ At(s, "GalleryPOST", "cat")
    /\ \E l \in FormInputs("category") : Upsert(s, Or2(l, "Uncategorized"), "category", "c", "med")
    /\ UNCHANGED <<artworks, store, nextArtId>>
    /\ W(s)

GalleryPOST_Medium(s) ==
    /\ At(s, "GalleryPOST", "med")
    /\ \E l \in FormInputs("medium") : Upsert(s, Or2(l, "Mixed Media"), "medium", "m", "size")
    /\ UNCHANGED <<artworks, store, nextArtId>>
    /\ W(s)

GalleryPOST_Size(s) ==
    /\ At(s, "GalleryPOST", "size")
    /\ \E l \in FormInputs("size") : Upsert(s, Or2(l, "Various"), "size", "z", "s3image")
    /\ UNCHANGED <<artworks, store, nextArtId>>
    /\ W(s)

\* s3Client.send(uploadCommand): a failure throws and is answered 500
GalleryPOST_Image(s) ==
    /\ At(s, "GalleryPOST", "s3image")
    /\ \E ok \in BOOLEAN :
         /\ PutObject(ImageKey(sanitizeFilename(req[s].title)), ok)
         /\ IF ok THEN SetReq(s, [req[s] EXCEPT !.pc = "create"]) ELSE Throw(s, "S3")
    /\ UNCHANGED <<tags, artworks, nextTagId, nextArtId>>
    /\ W(s)

GalleryPOST_Create(s) ==
    /\ At(s, "GalleryPOST", "create")
    /\ \E d \in DescInputs :
         CreateArtwork(s, [id |-> nextArtId, name |-> req[s].title, description |-> d,
                           src |-> UrlOf(ImageKey(sanitizeFilename(req[s].title))),
                           thumbSrc |-> UrlOf(ThumbnailKey(sanitizeFilename(req[s].title))),
                           categories |-> <<req[s].c>>, medium |-> req[s].m,
                           size |-> req[s].z])
    /\ UNCHANGED <<tags, store, nextTagId>>
    /\ W(s)

----------------------------------------------------------------------------
(* app/api/gallery/route.ts, PUT and DELETE: a session is all they ask for *)

\* the session, then the "data" field of the form (here: well-formed JSON)
GalleryPUT_Begin(s) ==
    /\ CanBegin(s)
    /\ \E sess \in Roles, id \in ArtIds, title \in TitleInputs :
         LET r == [Fresh EXCEPT !.h = "GalleryPUT", !.sess = sess]
         IN  IF sessionCheck(sess) # 0 THEN SetReq(s, Finish(r, sessionCheck(sess)))
             ELSE SetReq(s, [r EXCEPT !.pc = "cat", !.id = id, !.title = title])
    /\ UNCHANGED <<tags, artworks, store, nextTagId, nextArtId>>
    /\ W(s)

GalleryPUT_Category(s) ==
    /\ At(s, "GalleryPUT", "cat")
    /\ \E l \in FormLabels("category") : Upsert(s, l, "category", "c", "med")
    /\ UNCHANGED <<artworks, store, nextArtId>>
    /\ W(s)

GalleryPUT_Medium(s) ==
    /\ At(s, "GalleryPUT", "med")
    /\ \E l \in FormLabels("medium") : Upsert(s, l, "medium", "m", "size")
    /\ UNCHANGED <<artworks, store, nextArtId>>
    /\ W(s)

GalleryPUT_Size(s) ==
    /\ At(s, "GalleryPUT", "size")
    /\ \E l \in FormLabels("size") : Upsert(s, l, "size", "z", "update")
    /\ UNCHANGED <<artworks, store, nextArtId>>
    /\ W(s)

\* Artwork.findByIdAndUpdate(params.id, {name: data.title, description: ...});
\* a field that is undefined is not set
GalleryPUT_Update(s) ==
    /\ At(s, "GalleryPUT", "update")
    /\ \E d \in DescInputs :
         IF ArtById(req[s].id) = {} THEN UpdateArtwork(s, req[s].id, Fresh)
         ELSE LET old == CHOOSE a \in ArtById(req[s].id) : TRUE
              IN  UpdateArtwork(s, req[s].id,
                      [old EXCEPT !.name = OrSeq(req[s].title, old.name),
                                  !.description = OrSeq(d, old.description),
                                  !.categories = <<req[s].c>>,
                                  !.medium = req[s].m, !.size = req[s].z])
    /\ UNCHANGED <<tags, store, nextTagId, nextArtId>>
    /\ W(s)

GalleryDELETE_Begin(s) ==
    /\ CanBegin(s)
    /\ \E sess \in Roles, id \in ArtIds :
         LET r == [Fresh EXCEPT !.h = "GalleryDELETE", !.sess = sess]
         IN  IF sessionCheck(sess) # 0 THEN SetReq(s, Finish(r, sessionCheck(sess)))
             ELSE SetReq(s, [r EXCEPT !.pc = "delete", !.id = id])
    /\ UNCHANGED <<tags, artworks, store, nextTagId, nextArtId>>
    /\ W(s)

\* Artwork.findByIdAndDelete(params.id)
GalleryDELETE_Delete(s) ==
    /\ At(s, "GalleryDELETE", "delete")
    /\ artworks' = artworks \ ArtById(req[s].id)
    /\ Respond(s, IF ArtById(req[s].id) = {} THEN 404 ELSE 200)
    /\ UNCHANGED <<tags, store, nextTagId, nextArtId>>
    /\ W(s)

----------------------------------------------------------------------------
(* app/api/gallery/[id]/route.ts, PUT and DELETE *)

ArtworkPUT_Begin(s) ==
    /\ CanBegin(s)
    /\ \E sess \in Roles, id \in ArtIds, title \in TitleInputs :
         LET r == [Fresh EXCEPT !.h = "ArtworkPUT", !.sess = sess]
         IN  IF checkAdminRole(sess) # 0 THEN SetReq(s, Finish(r, checkAdminRole(sess)))
             ELSE IF sessionCheck(sess) # 0 THEN SetReq(s, Finish(r, sessionCheck(sess)))
             ELSE SetReq(s, [r EXCEPT !.pc = "find", !.id = id, !.title = title])
    /\ UNCHANGED <<tags, artworks, store, nextTagId, nextArtId>>
    /\ W(s)

\* Artwork.findById(id).populate("categories medium size")
ArtworkPUT_Find(s) ==
    /\ At(s, "ArtworkPUT", "find")
    /\ IF ArtById(req[s].id) = {} THEN Respond(s, 404)
       ELSE LET a == CHOOSE a \in ArtById(req[s].id) : TRUE
                cats == SelectSeq(a.categories, LAMBDA c : TagById(c) # {})
            IN  SetReq(s, [req[s] EXCEPT
                    !.pc = "cat",
                    !.ex = [name |-> a.name, desc |-> a.description,
                            cat |-> IF cats = <<>> THEN "" ELSE LabelOfRef(cats[1]),
                            med |-> LabelOfRef(a.medium),
                            size |-> LabelOfRef(a.size)]])
    /\ UNCHANGED <<tags, artworks, store, nextTagId, nextArtId>>
    /\ W(s)

ArtworkPUT_Category(s) ==
    /\ At(s, "ArtworkPUT", "cat")
    /\ \E l \in FormInputs("category") :
         Upsert(s, Or3(l, req[s].ex.cat, "Uncategorized"), "category", "c", "med")
    /\ UNCHANGED <<artworks, store, nextArtId>>
    /\ W(s)

ArtworkPUT_Medium(s) ==
    /\ At(s, "ArtworkPUT", "med")
    /\ \E l \in FormInputs("medium") :
         Upsert(s, Or3(l, req[s].ex.med, "Mixed Media"), "medium", "m", "size")
    /\ UNCHANGED <<artworks, store, nextArtId>>
    /\ W(s)

ArtworkPUT_Size(s) ==
    /\ At(s, "ArtworkPUT", "size")
    /\ \E l \in FormInputs("size") :
         Upsert(s, Or3(l, req[s].ex.size, "Unknown"), "size", "z", "update")
    /\ UNCHANGED <<artworks, store, nextArtId>>
    /\ W(s)

\* Artwork.findByIdAndUpdate(id, {name: title || existing.name, ...})
ArtworkPUT_Update(s) ==
    /\ At(s, "ArtworkPUT", "update")
    /\ \E d \in DescInputs :
         IF ArtById(req[s].id) = {} THEN UpdateArtwork(s, req[s].id, Fresh)
         ELSE LET old == CHOOSE a \in ArtById(req[s].id) : TRUE
              IN  UpdateArtwork(s, req[s].id,
                      [old EXCEPT !.name = OrSeq(req[s].title, req[s].ex.name),
                                  !.description = OrSeq(d, req[s].ex.desc),
                                  !.categories = <<req[s].c>>,
                                  !.medium = req[s].m, !.size = req[s].z])
    /\ UNCHANGED <<tags, store, nextTagId, nextArtId>>
    /\ W(s)

ArtworkDELETE_Begin(s) ==
    /\ CanBegin(s)
    /\ \E sess \in Roles, id \in ArtIds :
         LET r == [Fresh EXCEPT !.h = "ArtworkDELETE", !.sess = sess]
         IN  IF checkAdminRole(sess) # 0 THEN SetReq(s, Finish(r, checkAdminRole(sess)))
             ELSE IF sessionCheck(sess) # 0 THEN SetReq(s, Finish(r, sessionCheck(sess)))
             ELSE SetReq(s, [r EXCEPT !.pc = "find", !.id = id])
    /\ UNCHANGED <<tags, artworks, store, nextTagId, nextArtId>>
    /\ W(s)

\* Artwork.findById(id): the S3 keys come from its src and thumbSrc
ArtworkDELETE_Find(s) ==
    /\ At(s, "ArtworkDELETE", "find")
    /\ IF ArtById(req[s].id) = {} THEN Respond(s, 404)
       ELSE LET a == CHOOSE a \in ArtById(req[s].id) : TRUE
            IN  SetReq(s, [req[s] EXCEPT !.pc = "s3image",
                                         !.title = getKeyFromUrl(a.src),
                                         !.file = getKeyFromUrl(a.thumbSrc)])
    /\ UNCHANGED <<tags, artworks, store, nextTagId, nextArtId>>
    /\ W(s)

S3ErrorEscapes(s) == SetReq(s, [Finish([req[s] EXCEPT !.s3err = TRUE], 500) EXCEPT !.err = "S3"])

\* catch (s3Error): logged, the handler goes on to the database delete
S3ErrorCaught(s) == SetReq(s, [req[s] EXCEPT !.pc = "delete", !.s3err = TRUE])

\* s3Client.send(new DeleteObjectCommand({Key: originalPath}))
ArtworkDELETE_Image(s) ==
    /\ At(s, "ArtworkDELETE", "s3image")
    /\ \E ok \in BOOLEAN :
         IF ok THEN /\ store' = store \ {req[s].title}
                    /\ SetReq(s, [req[s] EXCEPT !.pc = "s3thumb"])
         ELSE S3ErrorCaught(s) /\ UNCHANGED store
    /\ UNCHANGED <<tags, artworks, nextTagId, nextArtId>>
    /\ W(s)

\* s3Client.send(new DeleteObjectCommand({Key: thumbnailPath}))
ArtworkDELETE_Thumbnail(s) ==
    /\ At(s, "ArtworkDELETE", "s3thumb")
    /\ \E ok \in BOOLEAN :
         IF ok THEN /\ store' = store \ {req[s].file}
                    /\ SetReq(s, [req[s] EXCEPT !.pc = "delete"])
         ELSE S3ErrorCaught(s) /\ UNCHANGED store
    /\ UNCHANGED <<tags, artworks, nextTagId, nextArtId>>
    /\ W(s)

\* Artwork.findByIdAndDelete(id), answered 200 whatever it found
ArtworkDELETE_Delete(s) ==
    /\ At(s, "ArtworkDELETE", "delete")
    /\ artworks' = artworks \ ArtById(req[s].id)
    /\ Respond(s, 200)
    /\ UNCHANGED <<tags, store, nextTagId, nextArtId>>
    /\ W(s)

----------------------------------------------------------------------------
(* app/api/tags/route.ts, POST *)

\* checkAdminRole, the session, the JSON body: label and type are required
TagsPOST_Begin(s) ==
    /\ CanBegin(s)
    /\ \E sess \in Roles, label \in LabelInputs, type \in TypeInputs :
         LET r == [Fresh EXCEPT !.h = "TagsPOST", !.sess = sess]
         IN  IF checkAdminRole(sess) # 0 THEN SetReq(s, Finish(r, checkAdminRole(sess)))
             ELSE IF sessionCheck(sess) # 0 THEN SetReq(s, Finish(r, sessionCheck(sess)))
             ELSE IF label = "" \/ type = "" THEN SetReq(s, Finish(r, 400))
             ELSE SetReq(s, [r EXCEPT !.pc = "find", !.lab = label, !.typ = type])
    /\ UNCHANGED <<tags, artworks, store, nextTagId, nextArtId>>
    /\ W(s)

\* Tag.findOne({label, type}): "Tag already exists" is answered 400
TagsPOST_Find(s) ==
    /\ At(s, "TagsPOST", "find")
    /\ IF FindTag(req[s].lab, req[s].typ) # {} THEN Respond(s, 400)
       ELSE SetReq(s, [req[s] EXCEPT !.pc = "create"])
    /\ UNCHANGED <<tags, artworks, store, nextTagId, nextArtId>>
    /\ W(s)

\* Tag.create({label, type}): a duplicate key throws and is answered 500
TagsPOST_Create(s) ==
    /\ At(s, "TagsPOST", "create")
    /\ LET t == [id |-> nextTagId, label |-> req[s].lab, type |-> req[s].typ]
       IN  IF TagIndexesOK(tags \cup {t})
           THEN /\ nextTagId <= MaxTags
                /\ tags' = tags \cup {t}
                /\ nextTagId' = nextTagId + 1
                /\ SetReq(s, Finish([req[s] EXCEPT !.newId = t.id], 200))
           ELSE /\ Throw(s, "DuplicateKey")
                /\ UNCHANGED <<tags, nextTagId>>
    /\ UNCHANGED <<artworks, store, nextArtId>>
    /\ W(s)

----------------------------------------------------------------------------
(* app/api/tags/route.ts, GET: no session is asked for *)

\* connectDB, then the type parameter of the query string is required
TagsGET_Begin(s) ==
    /\ CanBegin(s)
    /\ \E sess \in Roles, type \in TypeInputs :
         LET r == [Fresh EXCEPT !.h = "TagsGET", !.sess = sess]
         IN  IF type = "" THEN SetReq(s, Finish(r, 400))
             ELSE SetReq(s, [r EXCEPT !.pc = "find", !.typ = type])
    /\ UNCHANGED <<tags, artworks, store, nextTagId, nextArtId>>
    /\ W(s)

\* Tag.find({ type }).sort("label")
TagsGET_Find(s) ==
    /\ At(s, "TagsGET", "find")
    /\ Respond(s, 200)
    /\ UNCHANGED <<tags, artworks, store, nextTagId, nextArtId>>
    /\ W(s)

----------------------------------------------------------------------------
(* app/api/tags/[id]/route.ts, PUT and the two DELETE handlers *)

ReplacedTag(old, label, type) ==
    [id |-> old.id + MaxTags, label |-> Or2(label, old.label), type |-> Or2(type, old.type)]

\* the document after {label: data.label, type: data.type} is set on it: same _id
UpdatedTag(old, label, type) ==
    [old EXCEPT !.label = Or2(label, old.label), !.type = Or2(type, old.type)]

TagPUT_Begin(s) ==
    /\ CanBegin(s)
    /\ \E sess \in Roles, id \in TagIds :
         LET r == [Fresh EXCEPT !.h = "TagPUT", !.sess = sess]
         IN  IF checkAdminRole(sess) # 0 THEN SetReq(s, Finish(r, checkAdminRole(sess)))
             ELSE IF sessionCheck(sess) # 0 THEN SetReq(s, Finish(r, sessionCheck(sess)))
             ELSE SetReq(s, [r EXCEPT !.pc = "update", !.id = id])
    /\ UNCHANGED <<tags, artworks, store, nextTagId, nextArtId>>
    /\ W(s)

\* Tag.findByIdAndUpdate(id, {label: data.label, type: data.type}, {new: true});
\* a field that is undefined is not set, no validator runs
TagPUT_Update(s) ==
    /\ At(s, "TagPUT", "update")
    /\ \E label \in LabelInputs, type \in TypeInputs :
         IF TagById(req[s].id) = {} THEN Respond(s, 404) /\ UNCHANGED tags
         ELSE LET old == CHOOSE t \in TagById(req[s].id) : TRUE
                  new == UpdatedTag(old, label, type)
                  ts == (tags \ {old}) \cup {new}
              IN  IF TagIndexesOK(ts)
                  THEN tags' = ts /\ Respond(s, 200)
                  ELSE Throw(s, "DuplicateKey") /\ UNCHANGED tags
    /\ UNCHANGED <<artworks, store, nextTagId, nextArtId>>
    /\ W(s)

\* both DELETE handlers of the file: checkAdminRole, the session, the id
TagDELETE_Begin(s) ==
    /\ CanBegin(s)
    /\ \E sess \in Roles, id \in TagIds :
         LET r == [Fresh EXCEPT !.h = "TagDELETE", !.sess = sess]
         IN  IF checkAdminRole(sess) # 0 THEN SetReq(s, Finish(r, checkAdminRole(sess)))
             ELSE IF sessionCheck(sess) # 0 THEN SetReq(s, Finish(r, sessionCheck(sess)))
             ELSE SetReq(s, [r EXCEPT !.pc = "delete", !.id = id])
    /\ UNCHANGED <<tags, artworks, store, nextTagId, nextArtId>>
    /\ W(s)

DeleteReferencedToo(id) == artworks' = {a \in artworks : a.medium # id /\ a.size # id}

\* nothing but the tag is touched: artworks keep their references
TagDeleteCascade(id) == artworks' = artworks

\* Tag.findByIdAndDelete(id)
TagDELETE_Delete(s) ==
    /\ At(s, "TagDELETE", "delete")
    /\ tags' = tags \ TagById(req[s].id)
    /\ TagDeleteCascade(req[s].id)
    /\ Respond(s, IF TagById(req[s].id) = {} THEN 404 ELSE 200)
    /\ UNCHANGED <<store, nextTagId, nextArtId>>
    /\ W(s)

----------------------------------------------------------------------------
(* The server: each request runs its handler's steps, interleaved with the others *)

TagDeleteStep(s) ==
    \/ TagDELETE_Begin(s)
    \/ TagDELETE_Delete(s)

OtherStep(s) ==
    \/ UploadPOST_Begin(s) \/ UploadPOST_Image(s) \/ UploadPOST_Thumbnail(s)
    \/ UploadPOST_Category(s) \/ UploadPOST_Medium(s) \/ UploadPOST_Size(s)
    \/ UploadPOST_Create(s)
    \/ GalleryPOST_Begin(s) \/ GalleryPOST_Category(s) \/ GalleryPOST_Medium(s)
    \/ GalleryPOST_Size(s) \/ GalleryPOST_Image(s) \/ GalleryPOST_Create(s)
    \/ GalleryPUT_Begin(s) \/ GalleryPUT_Category(s) \/ GalleryPUT_Medium(s)
    \/ GalleryPUT_Size(s) \/ GalleryPUT_Update(s)
    \/ GalleryDELETE_Begin(s) \/ GalleryDELETE_Delete(s)
    \/ ArtworkPUT_Begin(s) \/ ArtworkPUT_Find(s) \/ ArtworkPUT_Category(s)
    \/ ArtworkPUT_Medium(s) \/ ArtworkPUT_Size(s) \/ ArtworkPUT_Update(s)
    \/ ArtworkDELETE_Begin(s) \/ ArtworkDELETE_Find(s) \/ ArtworkDELETE_Image(s)
    \/ ArtworkDELETE_Thumbnail(s) \/ ArtworkDELETE_Delete(s)
    \/ TagsPOST_Begin(s) \/ TagsPOST_Find(s) \/ TagsPOST_Create(s)
    \/ TagsGET_Begin(s) \/ TagsGET_Find(s)
    \/ TagPUT_Begin(s) \/ TagPUT_Update(s)

Next == \E s \in Slots : OtherStep(s) \/ TagDeleteStep(s)

Spec == Init /\ [][Next]_vars

\* the same server when no tag is ever deleted
NextNoTagDelete == \E s \in Slots : OtherStep(s)

SpecNoTagDelete == Init /\ [][NextNoTagDelete]_vars

----------------------------------------------------------------------------
(* The server when the database can fail: any awaited database call of a      *)
(* handler, connectDB included, may reject instead of doing its work          *)

\* the positions at which a handler awaits connectDB or a query
AwaitsDb(s) ==
    \/ req[s].pc \in {"find", "cat", "med", "size", "create", "update", "delete"}
    \/ At(s, "UploadPOST", "s3image")

\* the call rejects (connection lost, server selection timed out): nothing is
\* written, the exception goes to the catch of the handler's try block
DbFault(s) ==
    /\ AwaitsDb(s)
    /\ Throw(s, "MongoError")
    /\ UNCHANGED <<tags, artworks, store, nextTagId, nextArtId>>
    /\ W(s)

NextFaults == OtherStep(1) \/ TagDeleteStep(1) \/ DbFault(1)

SpecFaults == Init /\ [][NextFaults]_vars

----------------------------------------------------------------------------
(* app/api/gallery/route.ts, GET: the paginated listing, on a collection that *)
(* no request writes to meanwhile                                             *)

Min(a, b) == IF a < b THEN a ELSE b
Range(f) == {f[i] : i \in DOMAIN f}

\* Math.ceil(total / limit)
Ceil(total, limit) == (total + limit - 1) \div limit

\* a fourth tag, so that the listed artworks differ in their medium
ListedTags == SeedTags \cup {[id |-> 4, label |-> "b", type |-> "medium"]}

\* the i-th listed artwork: uploaded like the seed, under a title of i letters
ListedArtwork(i) ==
    [SeedArtwork EXCEPT !.id = i, !.name = Rep("a", i),
                        !.src = UrlOf(ImageKey(sanitizeFilename(Rep("a", i)))),
                        !.thumbSrc = UrlOf(ThumbnailKey(sanitizeFilename(Rep("a", i)))),
                        !.medium = IF i = MaxListed THEN 4 ELSE 2]

\* the query built from the category, medium and size parameters: a parameter
\* that is absent, or names no tag of its type, adds no condition
Matches(a, q) ==
    /\ (q.category # "" /\ FindTag(q.category, "category") # {})
           => \E i \in 1..Len(a.categories) :
                 a.categories[i] \in {t.id : t \in FindTag(q.category, "category")}
    /\ (q.medium # "" /\ FindTag(q.medium, "medium") # {})
           => a.medium \in {t.id : t \in FindTag(q.medium, "medium")}
    /\ (q.size # "" /\ FindTag(q.size, "size") # {})
           => a.size \in {t.id : t \in FindTag(q.size, "size")}

Matching(q) == {a \in artworks : Matches(a, q)}

\* the sort key: ArtworkSchema declares no createdAt and no timestamps option,
\* so the field is missing, and equal, in every document
createdAt(a) == 0

\* find(query).sort({createdAt: -1}): the orders the database may return the
\* matching documents in; documents with equal keys come in any order
Sorted(S) ==
    {f \in [1..Cardinality(S) -> S] :
        /\ \A i, j \in DOMAIN f : i # j => f[i] # f[j]
        /\ \A i, j \in DOMAIN f : i < j => createdAt(f[i]) >= createdAt(f[j])}

\* .skip((page - 1) * limit).limit(limit)
SkipLimit(order, page, limit) ==
    SubSeq(order, (page - 1) * limit + 1, Min(page * limit, Len(order)))

\* the whole handler: the query, countDocuments, find, the JSON body
GalleryGET ==
    /\ Len(listed) < MaxGets
    /\ \E page \in 1..MaxPage, limit \in 1..MaxLimit,
          category \in {"", "Uncategorized"}, medium \in {"", "b"}, size \in {"", "zz"} :
         LET q == [category |-> category, medium |-> medium, size |-> size]
             total == Cardinality(Matching(q))
         IN  \E order \in Sorted(Matching(q)) :
                listed' = Append(listed,
                    [page |-> page, limit |-> limit, query |-> q,
                     artworks |-> [i \in DOMAIN SkipLimit(order, page, limit) |->
                                     SkipLimit(order, page, limit)[i].id],
                     total |-> total,
                     totalPages |-> Ceil(total, limit)])
    /\ UNCHANGED <<tags, artworks, store, nextTagId, nextArtId, req, wrote, dash, mongo>>
    /\ UNCHANGED <<gal, detail, auth>>

InitListing ==
    /\ tags = ListedTags
    /\ artworks \in SUBSET {ListedArtwork(i) : i \in 1..MaxListed}
    /\ store = UNION {{getKeyFromUrl(a.src), getKeyFromUrl(a.thumbSrc)} : a \in artworks}
    /\ nextTagId = 5
    /\ nextArtId = MaxListed + 1
    /\ req = [s \in Slots |-> Fresh]
    /\ wrote = [s \in Slots |-> FALSE]
    /\ listed = <<>>
    /\ gal = NoGal /\ detail = NoDetail /\ auth = NoAuth
    /\ dash = NoDash
    /\ mongo = NoMongo

NextListing == GalleryGET

SpecListing == InitListing /\ [][NextListing]_vars

----------------------------------------------------------------------------
(* app/dashboard/page.tsx: the submit handler of the upload form, in the two  *)
(* versions of the page, and the server answering its requests                *)

Versions == {"onSubmitForm", "onSubmit"}

\* the dashboard with the upload form shown; sent, failed and stored are the
\* history of the current submission
FormDash(ver) ==
    [pc |-> "form", ver |-> ver, isUploading |-> FALSE, n |-> 0, i |-> 0,
     totalFiles |-> 0, processedFiles |-> 0, successCount |-> 0,
     flight |-> {}, sent |-> <<>>, failed |-> 0, stored |-> <<>>, submits |-> 0]

InitBatch ==
    /\ tags = ListedTags
    /\ artworks = {}
    /\ store = {}
    /\ nextTagId = 5
    /\ nextArtId = 1
    /\ req = [s \in Slots |-> Fresh]
    /\ wrote = [s \in Slots |-> FALSE]
    /\ listed = <<>>
    /\ gal = NoGal /\ detail = NoDetail /\ auth = NoAuth
    /\ dash \in {FormDash(ver) : ver \in Versions}
    /\ mongo = NoMongo

BatchFrame ==
    UNCHANGED <<tags, store, nextTagId, req, wrote, listed, mongo, gal, detail, auth>>

\* the submit button is disabled while isUploading; no file selected is a toast
Submit ==
    /\ dash.pc = "form" /\ ~dash.isUploading /\ dash.submits < MaxSubmits
    /\ \E n \in 0..MaxFiles :
         dash' = IF n = 0 THEN [dash EXCEPT !.submits = @ + 1]
                 ELSE [dash EXCEPT !.pc = "loop", !.isUploading = TRUE, !.n = n, !.i = 1,
                                   !.totalFiles = n, !.processedFiles = 0,
                                   !.successCount = 0, !.sent = <<>>, !.failed = 0,
                                   !.stored = <<>>, !.submits = @ + 1]
    /\ UNCHANGED <<artworks, nextArtId>>
    /\ BatchFrame

NoAwait(d) == [d EXCEPT !.i = @ + 1]

\* const response = await fetch(...): the handler is suspended until the
\* response is there
AwaitFetch(d) == [d EXCEPT !.pc = "fetch"]

\* for (let i = 0; i < files.length; i++): the request for file i is sent; st is
\* the status of its response, 0 while there is none
SendFile ==
    /\ dash.pc = "loop" /\ dash.i <= dash.n
    /\ dash' = AwaitFetch([dash EXCEPT
                   !.sent = Append(@, dash.i),
                   !.flight = @ \cup {[file |-> dash.i, st |-> 0, id |-> 0]}])
    /\ UNCHANGED <<artworks, nextArtId>>
    /\ BatchFrame

\* POST /api/gallery on the server: the upload is stored and answered 200, or
\* it is refused (403) or fails (500) and nothing is stored
ServerPOST ==
    /\ \E f \in dash.flight :
         /\ f.st = 0
         /\ \E st \in {200, 403, 500} :
              IF st = 200
              THEN /\ artworks' = artworks \cup {ListedArtwork(nextArtId)}
                   /\ nextArtId' = nextArtId + 1
                   /\ dash' = [dash EXCEPT !.flight =
                                 (@ \ {f}) \cup {[f EXCEPT !.st = 200, !.id = nextArtId]}]
              ELSE /\ dash' = [dash EXCEPT !.flight = (@ \ {f}) \cup {[f EXCEPT !.st = st]}]
                   /\ UNCHANGED <<artworks, nextArtId>>
    /\ BatchFrame

SkipFile(d) == [d EXCEPT !.failed = d.i, !.i = @ + 1, !.pc = "loop"]

\* onSubmitForm throws to its catch; onSubmit toasts, breaks out of the loop
\* and, when an earlier file succeeded, awaits loadArtworks
Failed(d) ==
    [d EXCEPT !.failed = d.i,
              !.pc = IF d.ver = "onSubmit" /\ d.successCount > 0
                     THEN "reload" ELSE "finally"]

\* the response for file i arrives: response.ok counts it, anything else fails
Receive ==
    /\ dash.pc = "fetch"
    /\ \E f \in dash.flight :
         /\ f.file = dash.i /\ f.st # 0
         /\ LET d == [dash EXCEPT !.flight = @ \ {f}]
            IN  dash' = IF f.st = 200
                        THEN [d EXCEPT !.successCount = @ + 1, !.processedFiles = d.i,
                                       !.stored = Append(@, f.id), !.i = @ + 1,
                                       !.pc = "loop"]
                        ELSE Failed(d)
    /\ UNCHANGED <<artworks, nextArtId>>
    /\ BatchFrame

\* fetch rejects (the network fails), whether or not the server got the request
Reject ==
    /\ dash.pc = "fetch"
    /\ \E f \in dash.flight :
         /\ f.file = dash.i
         /\ dash' = Failed([dash EXCEPT !.flight = @ \ {f}])
    /\ UNCHANGED <<artworks, nextArtId>>
    /\ BatchFrame

\* after the last file: if (successCount > 0) toast, loadArtworks, resetForm
LoopEnd ==
    /\ dash.pc = "loop" /\ dash.i > dash.n
    /\ dash' = [dash EXCEPT !.pc = IF dash.ver = "onSubmit" THEN "reload" ELSE "finally"]
    /\ UNCHANGED <<artworks, nextArtId>>
    /\ BatchFrame

\* await loadArtworks(): it catches its own errors
Reload ==
    /\ dash.pc = "reload"
    /\ dash' = [dash EXCEPT !.pc = "finally"]
    /\ UNCHANGED <<artworks, nextArtId>>
    /\ BatchFrame

\* finally { setIsUploading(false) ... }
Finally ==
    /\ dash.pc = "finally"
    /\ dash' = [dash EXCEPT !.pc = "form", !.isUploading = FALSE,
                            !.totalFiles = IF dash.ver = "onSubmitForm" \/ dash.successCount > 0
                                           THEN 0 ELSE @,
                            !.processedFiles = 0]
    /\ UNCHANGED <<artworks, nextArtId>>
    /\ BatchFrame

NextBatch ==
    \/ Submit \/ SendFile \/ ServerPOST \/ Receive \/ Reject
    \/ LoopEnd \/ Reload \/ Finally

SpecBatch == InitBatch /\ [][NextBatch]_vars

\* the steps that do not wait for the user
Progress ==
    \/ SendFile \/ ServerPOST \/ Receive \/ Reject
    \/ LoopEnd \/ Reload \/ Finally

\* every fetch settles and the handler runs on when it can
SpecBatchFair == SpecBatch /\ WF_vars(Progress)

----------------------------------------------------------------------------
(* lib/mongodb.ts: connectDB and its cache, on the event loop of one server   *)
(* process. A connection attempt is a promise; a call that awaits it goes on  *)
(* in a job that the settling of the promise queues, and the jobs of one      *)
(* promise run back to back before anything else.                             *)

\* the module is loaded: cached = { conn: null, promise: null }, no call yet;
\* 0 is null, a handle is the number of the attempt that produced it
InitConnect ==
    /\ tags = {}
    /\ artworks = {}
    /\ store = {}
    /\ nextTagId = 1
    /\ nextArtId = 1
    /\ req = [s \in Slots |-> Fresh]
    /\ wrote = [s \in Slots |-> FALSE]
    /\ listed = <<>>
    /\ gal = NoGal /\ detail = NoDetail /\ auth = NoAuth
    /\ dash = NoDash
    /\ mongo = [conn |-> 0, promise |-> 0, attempts |-> <<>>, calls |-> <<>>,
                jobs |-> <<>>]

ConnectFrame ==
    UNCHANGED <<tags, artworks, store, nextTagId, nextArtId, req, wrote, listed, dash,
                gal, detail, auth>>

AlwaysAttempt(m) == TRUE

\* if (!cached.promise)
NeedsAttempt(m) == m.promise = 0

\* connectDB() up to its await: return the cached handle, or start an attempt
\* if there is no promise, then await the promise
ConnectCall ==
    /\ Len(mongo.calls) < MaxCalls
    /\ mongo.jobs = <<>>
    /\ mongo' =
         IF mongo.conn # 0
         THEN [mongo EXCEPT !.calls = Append(@, [st |-> "returned", on |-> 0,
                                                 got |-> mongo.conn])]
         ELSE IF NeedsAttempt(mongo)
         THEN LET a == Len(mongo.attempts) + 1
              IN  [mongo EXCEPT !.attempts = Append(@, "pending"), !.promise = a,
                                !.calls = Append(@, [st |-> "awaiting", on |-> a,
                                                     got |-> 0])]
         ELSE [mongo EXCEPT !.calls = Append(@, [st |-> "awaiting", on |-> mongo.promise,
                                                 got |-> 0])]
    /\ ConnectFrame

\* the calls awaiting attempt a, in the order in which they began to await
RECURSIVE Waiters(_, _, _)
Waiters(calls, a, c) ==
    IF c > Len(calls) THEN <<>>
    ELSE (IF calls[c].st = "awaiting" /\ calls[c].on = a THEN <<c>> ELSE <<>>)
             \o Waiters(calls, a, c + 1)

\* mongoose.connect(...).then(...) settles: fulfilled or rejected
Settle ==
    /\ mongo.jobs = <<>>
    /\ \E a \in DOMAIN mongo.attempts, ok \in BOOLEAN :
         /\ mongo.attempts[a] = "pending"
         /\ mongo' = [mongo EXCEPT !.attempts[a] = IF ok THEN "ok" ELSE "failed",
                                   !.jobs = Waiters(mongo.calls, a, 1)]
    /\ ConnectFrame

\* a call goes on after its await: cached.conn = the handle; return it, or
\* catch (error): cached.promise = null; throw error
Resume ==
    /\ mongo.jobs # <<>>
    /\ LET c == Head(mongo.jobs)
           a == mongo.calls[c].on
       IN  mongo' =
             IF mongo.attempts[a] = "ok"
             THEN [mongo EXCEPT !.conn = a, !.jobs = Tail(@),
                                !.calls[c] = [st |-> "returned", on |-> a, got |-> a]]
             ELSE [mongo EXCEPT !.promise = 0, !.jobs = Tail(@),
                                !.calls[c] = [st |-> "threw", on |-> a, got |-> 0]]
    /\ ConnectFrame

NextConnect == ConnectCall \/ Settle \/ Resume

SpecConnect == InitConnect /\ [][NextConnect]_vars

----------------------------------------------------------------------------
(* app/gallery/page.tsx: the public gallery page. One step is one event of  *)
(* the browser (a change of the medium filter, the scroll sentinel entering *)
(* or leaving the viewport, a fetch settling) together with the renders and *)
(* effects it sets off. The category and size filters stay at "All". The    *)
(* collection is at rest and the server lists it in one and the same order  *)
(* for every request.                                                       *)

MediumFilters == {"All", "b"}

\* the query string loadArtworks builds: a filter at "All" sends no parameter
QueryOf(sel) ==
    [category |-> "", medium |-> IF sel = "All" THEN "" ELSE sel, size |-> ""]

\* the artworks on show: every second one has the medium "b"
ShownArtwork(i) == [ListedArtwork(i) EXCEPT !.medium = IF i % 2 = 0 THEN 4 ELSE 2]

RECURSIVE Ascending(_)
Ascending(S) ==
    IF S = {} THEN <<>>
    ELSE LET m == CHOOSE x \in S : \A y \in S : x <= y
         IN  <<m>> \o Ascending(S \ {m})

\* the body of a successful GET /api/gallery?page=..&limit=..&medium=..
PageOf(q, page, limit) ==
    [artworks |-> SkipLimit(Ascending({a.id : a \in Matching(q)}), page, limit),
     total |-> Cardinality(Matching(q))]

\* the state after mount: the first render's effects have called loadArtworks
MountedGallery ==
    [pc |-> "open", sel |-> "All", page |-> 1, artworks |-> <<>>,
     isLoading |-> TRUE, hasMore |-> TRUE, isLoadingMore |-> FALSE,
     inView |-> FALSE, flight |-> {[n |-> 1, page |-> 1, sel |-> "All"]},
     n |-> 1, selects |-> 0, failures |-> 0]

\* the three effects of one render, in the order they are declared, each run
\* iff one of its dependencies differs from the render before:
\*   the reset effect, the effect that calls loadArtworks (with the page and
\*   the filter of this render, up to its first await), the scroll effect
RunEffects(old, new) ==
    LET filterChanged == new.sel # old.sel
        loadChanged == filterChanged \/ new.page # old.page
        scrollChanged ==
            <<new.inView, new.isLoading, new.isLoadingMore, new.hasMore>>
                # <<old.inView, old.isLoading, old.isLoadingMore, old.hasMore>>
        scrollFires ==
            /\ scrollChanged
            /\ new.inView /\ ~new.isLoading /\ ~new.isLoadingMore /\ new.hasMore
        page1 == IF filterChanged THEN 1 ELSE new.page
    IN  [new EXCEPT
            !.page = IF scrollFires THEN page1 + 1 ELSE page1,
            !.artworks = IF filterChanged THEN <<>> ELSE @,
            !.hasMore = IF filterChanged THEN TRUE ELSE @,
            !.isLoading = IF loadChanged /\ new.page = 1 THEN TRUE ELSE @,
            !.isLoadingMore = IF loadChanged /\ new.page # 1 THEN TRUE ELSE @,
            !.flight = IF loadChanged
                       THEN @ \cup {[n |-> new.n + 1, page |-> new.page, sel |-> new.sel]}
                       ELSE @,
            !.n = IF loadChanged THEN @ + 1 ELSE @]

\* render, run the effects, render again while an effect has set state
RECURSIVE Commit(_, _)
Commit(old, new) ==
    LET u == RunEffects(old, new)
    IN  IF u = new THEN new ELSE Commit(new, u)

GalleryFrame ==
    UNCHANGED <<tags, artworks, store, nextTagId, nextArtId, req, wrote, listed, dash,
                mongo, detail, auth>>

Rendered(g) == gal' = g /\ g.n <= MaxFetches

\* onChange of the medium select
SelectMedium ==
    /\ gal.selects < MaxSelects
    /\ \E v \in MediumFilters \ {gal.sel} :
         Rendered(Commit(gal, [gal EXCEPT !.sel = v, !.selects = @ + 1]))
    /\ GalleryFrame

\* the sentinel is rendered iff !isLoading && !isLoadingMore && hasMore
SentinelRendered(g) == ~g.isLoading /\ ~g.isLoadingMore /\ g.hasMore

\* useInView: the sentinel enters the viewport
ScrollIntoView ==
    /\ ~gal.inView /\ SentinelRendered(gal)
    /\ Rendered(Commit(gal, [gal EXCEPT !.inView = TRUE]))
    /\ GalleryFrame

\* useInView: the sentinel leaves the viewport, or is unmounted
ScrollAway ==
    /\ gal.inView
    /\ Rendered(Commit(gal, [gal EXCEPT !.inView = FALSE]))
    /\ GalleryFrame

\* setArtworks((prev) => ...): page 1 replaces, a later page appends what is new
Merged(prev, page, got) ==
    IF page = 1 THEN got
    ELSE LET New(id) == id \notin Range(prev)
         IN  prev \o SelectSeq(got, New)

\* the rest of loadArtworks once its fetch has settled: the try, the catch
\* (a toast) and the finally; page and the filters are those of the call
FetchSettles ==
    /\ \E f \in gal.flight, ok \in BOOLEAN :
         LET data == PageOf(QueryOf(f.sel), f.page, GalleryItemsPerPage)
             tried == IF ok
                      THEN [gal EXCEPT !.artworks = Merged(@, f.page, data.artworks),
                                       !.hasMore = f.page * GalleryItemsPerPage < data.total]
                      ELSE [gal EXCEPT !.failures = @ + 1]
         IN  Rendered(Commit(gal, [tried EXCEPT !.isLoading = FALSE,
                                                !.isLoadingMore = FALSE,
                                                !.flight = @ \ {f}]))
    /\ GalleryFrame

InitGallery ==
    /\ tags = ListedTags
    /\ \E total \in {0, MaxShown \div 2, MaxShown} :
         artworks = {ShownArtwork(i) : i \in 1..total}
    /\ store = UNION {{getKeyFromUrl(a.src), getKeyFromUrl(a.thumbSrc)} : a \in artworks}
    /\ nextTagId = 5
    /\ nextArtId = MaxShown + 1
    /\ req = [s \in Slots |-> Fresh]
    /\ wrote = [s \in Slots |-> FALSE]
    /\ listed = <<>>
    /\ dash = NoDash /\ mongo = NoMongo /\ detail = NoDetail /\ auth = NoAuth
    /\ gal = MountedGallery

NextGallery == SelectMedium \/ ScrollIntoView \/ ScrollAway \/ FetchSettles

SpecGallery == InitGallery /\ [][NextGallery]_vars

----------------------------------------------------------------------------
(* app/dashboard/page.tsx: the dashboard's artwork list and its infinite    *)
(* scroll. One step is one event of the browser together with the renders   *)
(* and effects it sets off. The sentinel is in view whenever it is rendered.*)

\* the hasMore state holds "true", "false" or "undefined": a property the
\* JSON body does not have reads as undefined
BoolField(data, k) ==
    IF k \in DOMAIN data THEN (IF data[k] THEN "true" ELSE "false") ELSE "undefined"
Truthy(v) == v = "true"
\* data[k] < n in JavaScript: false when data[k] is undefined
FieldLess(data, k, n) == k \in DOMAIN data /\ data[k] < n

\* the body GET /api/gallery answers with: artworks, total, totalPages
GalleryBody(page, limit) ==
    LET p == PageOf(QueryOf("All"), page, limit)
    IN  [artworks |-> p.artworks, total |-> p.total,
         totalPages |-> Ceil(p.total, limit)]

\* the first render and its effects: loadArtworks() of the load effect, and
\* a second call by the session effect when the session is there already
MountedList(session) ==
    [pc |-> "list", session |-> session, offset |-> 0, artworks |-> <<>>,
     totalArtworks |-> 0, isLoading |-> TRUE, isLoadingMore |-> FALSE,
     hasMore |-> "true", inView |-> FALSE,
     flight |-> {[n |-> k, offset |-> 0] : k \in 1..(IF session THEN 2 ELSE 1)},
     n |-> IF session THEN 2 ELSE 1, failures |-> 0, reloads |-> 0]

\* loadArtworks() up to its first await, called k times with this offset
Loading(d, offset, k) ==
    [d EXCEPT !.isLoading = IF k > 0 /\ offset = 0 THEN TRUE ELSE @,
              !.isLoadingMore = IF k > 0 /\ offset # 0 THEN TRUE ELSE @,
              !.flight = @ \cup {[n |-> d.n + j, offset |-> offset] : j \in 1..k},
              !.n = @ + k]

\* the effects of one render: the scroll effect, the load effect, the session
\* effect, each run iff one of its dependencies differs from the render before
ListEffects(old, new) ==
    LET scrollChanged ==
            <<new.inView, new.isLoading, new.isLoadingMore, new.hasMore,
              new.offset, new.totalArtworks>>
                # <<old.inView, old.isLoading, old.isLoadingMore, old.hasMore,
                    old.offset, old.totalArtworks>>
        scrollFires ==
            /\ scrollChanged
            /\ new.inView /\ ~new.isLoading /\ ~new.isLoadingMore /\ Truthy(new.hasMore)
            /\ new.offset + ITEMS_PER_PAGE < new.totalArtworks
        loadFires == new.offset # old.offset
        sessionFires ==
            /\ new.session # old.session \/ new.offset # old.offset
            /\ new.session /\ new.offset = 0
        calls == (IF loadFires THEN 1 ELSE 0) + (IF sessionFires THEN 1 ELSE 0)
    IN  [Loading(new, new.offset, calls) EXCEPT
            !.offset = IF scrollFires THEN @ + ITEMS_PER_PAGE ELSE @]

RECURSIVE ListCommit(_, _)
ListCommit(old, new) ==
    LET u == ListEffects(old, new)
    IN  IF u = new THEN new ELSE ListCommit(new, u)

ListFrame ==
    UNCHANGED <<tags, artworks, store, nextTagId, nextArtId, req, wrote, listed, mongo,
                gal, detail, auth>>

ListRendered(d) == dash' = d /\ d.n <= MaxLoads

\* useSession: the session arrives after the first render
SessionArrives ==
    /\ dash.pc = "list" /\ ~dash.session
    /\ ListRendered(ListCommit(dash, [dash EXCEPT !.session = TRUE]))
    /\ ListFrame

SentinelShown(d) == ~d.isLoading /\ ~d.isLoadingMore /\ Truthy(d.hasMore)

\* useInView: the sentinel is rendered, in view
SentinelSeen ==
    /\ dash.pc = "list" /\ ~dash.inView /\ SentinelShown(dash)
    /\ ListRendered(ListCommit(dash, [dash EXCEPT !.inView = TRUE]))
    /\ ListFrame

\* useInView: the sentinel is no longer rendered
SentinelGone ==
    /\ dash.pc = "list" /\ dash.inView /\ ~SentinelShown(dash)
    /\ ListRendered(ListCommit(dash, [dash EXCEPT !.inView = FALSE]))
    /\ ListFrame

\* loadArtworks() called again after an edit that left the listing as it was
Reloaded ==
    /\ dash.pc = "list" /\ dash.reloads < MaxReloads
    /\ ListRendered(ListCommit(dash, [Loading(dash, dash.offset, 1) EXCEPT !.reloads = @ + 1]))
    /\ ListFrame

\* the rest of loadArtworks once its fetch has settled
ListFetchSettles ==
    /\ dash.pc = "list"
    /\ \E f \in dash.flight, ok \in BOOLEAN :
         LET page == (f.offset \div ITEMS_PER_PAGE) + 1
             data == GalleryBody(page, ITEMS_PER_PAGE)
             tried ==
                 IF ok
                 THEN [dash EXCEPT
                         !.totalArtworks = data.total,
                         !.artworks = Merged(@, IF f.offset = 0 THEN 1 ELSE page,
                                             data.artworks),
                         !.hasMore = IF FieldLess(data, "returnedCount", ITEMS_PER_PAGE)
                                     THEN "false" ELSE BoolField(data, "hasMore")]
                 ELSE [dash EXCEPT !.failures = @ + 1]
         IN  ListRendered(ListCommit(dash, [tried EXCEPT !.isLoading = FALSE,
                                                         !.isLoadingMore = FALSE,
                                                         !.flight = @ \ {f}]))
    /\ ListFrame

InitList ==
    /\ tags = ListedTags
    /\ \E total \in {0, 1, ITEMS_PER_PAGE, ITEMS_PER_PAGE + 1, MaxHeld} :
         artworks = {ShownArtwork(i) : i \in 1..total}
    /\ store = UNION {{getKeyFromUrl(a.src), getKeyFromUrl(a.thumbSrc)} : a \in artworks}
    /\ nextTagId = 5
    /\ nextArtId = MaxHeld + 1
    /\ req = [s \in Slots |-> Fresh]
    /\ wrote = [s \in Slots |-> FALSE]
    /\ listed = <<>>
    /\ mongo = NoMongo /\ gal = NoGal /\ detail = NoDetail /\ auth = NoAuth
    /\ dash \in {MountedList(session) : session \in BOOLEAN}

NextList ==
    SessionArrives \/ SentinelSeen \/ SentinelGone \/ Reloaded \/ ListFetchSettles

SpecList == InitList /\ [][NextList]_vars

\* every event but the user's own is bound to happen
SpecListFair ==
    SpecList /\ WF_vars(SessionArrives \/ SentinelSeen \/ SentinelGone \/ ListFetchSettles)

----------------------------------------------------------------------------
(* app/gallery/[id]/page.tsx: the artwork detail page. One step is one      *)
(* event of the browser together with the effects it sets off. The URL      *)
(* carries the medium filter; category and size stay at "All".              *)

\* allArtworks.findIndex((a) => a._id === id): -1 when there is none
FindIndex(list, id) ==
    IF \E i \in DOMAIN list : list[i] = id
    THEN (CHOOSE i \in DOMAIN list : list[i] = id /\ \A j \in 1..(i - 1) : list[j] # id) - 1
    ELSE -1

NoWrap(list, cur, direction) ==
    LET currentIndex == FindIndex(list, cur)
        newIndex == IF direction = "prev"
                    THEN (IF currentIndex > 0 THEN currentIndex - 1 ELSE 0)
                    ELSE (IF currentIndex < Len(list) - 1 THEN currentIndex + 1
                          ELSE Len(list) - 1)
    IN  IF newIndex + 1 \in DOMAIN list THEN list[newIndex + 1] ELSE 0

\* navigateToArtwork: the _id it pushes, 0 when allArtworks[newIndex] is undefined
NavTarget(list, cur, direction) ==
    LET currentIndex == FindIndex(list, cur)
        newIndex == IF direction = "prev"
                    THEN (IF currentIndex > 0 THEN currentIndex - 1 ELSE Len(list) - 1)
                    ELSE (IF currentIndex < Len(list) - 1 THEN currentIndex + 1 ELSE 0)
    IN  IF newIndex + 1 \in DOMAIN list THEN list[newIndex + 1] ELSE 0

\* the medium label GET /api/gallery sends for an artwork
MediumLabel(id) ==
    LET a == CHOOSE x \in artworks : x.id = id
    IN  Or2(LabelOfRef(a.medium), "Unknown")

\* data.artworks.filter(...) of fetchAllArtworks
Filtered(list, medium) ==
    LET Keep(id) == medium = "All" \/ MediumLabel(id) = medium
    IN  SelectSeq(list, Keep)

\* fetchArtwork() and fetchAllArtworks() of the effect, up to their awaits
Fetching(d) ==
    [d EXCEPT !.flight = @ \cup {[n |-> d.n + 1, kind |-> "one", id |-> d.id],
                                 [n |-> d.n + 2, kind |-> "all", id |-> d.id]},
              !.n = @ + 2]

\* the page as it is after the first render's effects
OpenedDetail(id, medium) ==
    Fetching([pc |-> "open", at |-> "detail", id |-> id, medium |-> medium,
              artwork |-> 0, allArtworks |-> <<>>, isLoading |-> TRUE,
              flight |-> {}, n |-> 0, navs |-> 0, failures |-> 0,
              opened |-> id, last |-> "none"])

\* the index effect: an artwork that is not in a non-empty list sends the
\* browser back to the gallery
IndexEffect(d) ==
    IF d.artwork # 0 /\ Len(d.allArtworks) > 0 /\ FindIndex(d.allArtworks, d.artwork) = -1
    THEN [d EXCEPT !.at = "gallery"]
    ELSE d

DetailFrame ==
    UNCHANGED <<tags, artworks, store, nextTagId, nextArtId, req, wrote, listed, dash,
                mongo, gal, auth>>

\* fetchArtwork after its fetch has settled: GET /api/gallery/[id] answers 404
\* for an _id that is not there
FetchArtworkSettles ==
    /\ detail.pc = "open" /\ detail.at = "detail"
    /\ \E f \in detail.flight, ok \in BOOLEAN :
         /\ f.kind = "one"
         /\ LET rest == [detail EXCEPT !.flight = @ \ {f}, !.isLoading = FALSE]
            IN  detail' =
                  IF ok /\ ArtById(f.id) # {}
                  THEN IndexEffect([rest EXCEPT !.artwork = f.id])
                  ELSE [rest EXCEPT !.at = "gallery",
                                    !.failures = IF ok THEN @ ELSE @ + 1]
    /\ DetailFrame

\* fetchAllArtworks after its fetch has settled: GET /api/gallery is asked
\* without page and limit
FetchAllSettles ==
    /\ detail.pc = "open" /\ detail.at = "detail"
    /\ \E f \in detail.flight, ok \in BOOLEAN :
         /\ f.kind = "all"
         /\ LET rest == [detail EXCEPT !.flight = @ \ {f}]
                data == PageOf(QueryOf("All"), 1, DefaultLimit)
            IN  detail' =
                  IF ok
                  THEN IndexEffect([rest EXCEPT
                          !.allArtworks = Filtered(data.artworks, detail.medium)])
                  ELSE [rest EXCEPT !.failures = @ + 1]
    /\ DetailFrame

\* an arrow key or button: router.push to the neighbour, whose page fetches anew
Navigate ==
    /\ detail.pc = "open" /\ detail.at = "detail" /\ detail.navs < MaxNavs
    /\ \E direction \in {"prev", "next"} :
         LET to == NavTarget(detail.allArtworks, detail.artwork, direction)
             d == [detail EXCEPT !.navs = @ + 1, !.last = direction]
         IN  detail' = IF to = 0 \/ to = detail.id THEN d
                       ELSE Fetching([d EXCEPT !.id = to])
    /\ DetailFrame

InitDetail ==
    /\ tags = ListedTags
    /\ \E total \in {1, MaxSeen - 1, MaxSeen} :
         artworks = {ShownArtwork(i) : i \in 1..total}
    /\ store = UNION {{getKeyFromUrl(a.src), getKeyFromUrl(a.thumbSrc)} : a \in artworks}
    /\ nextTagId = 5
    /\ nextArtId = MaxSeen + 1
    /\ req = [s \in Slots |-> Fresh]
    /\ wrote = [s \in Slots |-> FALSE]
    /\ listed = <<>>
    /\ dash = NoDash /\ mongo = NoMongo /\ gal = NoGal /\ auth = NoAuth
    /\ detail \in {OpenedDetail(id, medium) : id \in 1..(MaxSeen + 1), medium \in MediumFilters}

NextDetail == FetchArtworkSettles \/ FetchAllSettles \/ Navigate

SpecDetail == InitDetail /\ [][NextDetail]_vars

----------------------------------------------------------------------------
(* app/api/auth/[...nextauth]/authOptions.ts, lib/auth.ts, models/Profile.ts *)
(* and the scripts set-admin.ts and create-profile.ts: who is an admin       *)

Emails == {"a@x", "a@y", "b@x"}

\* email.split("@")[0]
UsernameOf(email) == IF email = "b@x" THEN "b" ELSE "a"

\* the user with _id i signed in with the i-th of these addresses
EmailOfUser(i) == IF i = 1 THEN "a@x" ELSE IF i = 2 THEN "a@y" ELSE "b@x"
UserIds == 1..MaxUsers

\* ProfileSchema: username and authId are unique
ProfileIndexesOK(ps) ==
    \A p1, p2 \in ps :
        (p1.username = p2.username \/ p1.authId = p2.authId) => p1 = p2

AdminByDefault(profiles, id, ok) ==
    IF \E p \in profiles : p.authId = id /\ p.role = "user" THEN "user" ELSE "admin"

\* the session callback: profile?.role || "user", and "user" when connectDB or
\* the lookup throws
SessionRole(profiles, id, ok) ==
    IF ~ok THEN "user"
    ELSE IF \E p \in profiles : p.authId = id
         THEN (CHOOSE p \in profiles : p.authId = id).role
         ELSE "user"

AuthFrame ==
    UNCHANGED <<tags, artworks, store, nextTagId, nextArtId, req, wrote, listed, dash,
                mongo, gal, detail>>

\* getServerSession for a signed-in user runs the session callback, and
\* checkAdminRole decides on that session
SessionCallback ==
    /\ auth.pc = "open" /\ auth.calls < MaxSessions
    /\ \E u \in auth.users, ok \in BOOLEAN :
         LET role == SessionRole(auth.profiles, u.id, ok)
         IN  auth' = [auth EXCEPT
                        !.session = [id |-> u.id, role |-> role, ok |-> ok,
                                     status |-> checkAdminRole(role)],
                        !.calls = @ + 1]
    /\ AuthFrame

\* set-admin.ts: users.updateOne({ email }, { $set: { role: "admin" } })
SetAdminRole ==
    /\ auth.pc = "open" /\ auth.runs < MaxRuns
    /\ \E email \in Emails :
         LET matched == {u \in auth.users : u.email = email}
         IN  auth' = [auth EXCEPT
                        !.users = (@ \ matched) \cup {[u EXCEPT !.role = "admin"] : u \in matched},
                        !.ran = IF matched # {} THEN @ \cup {<<"set-admin", email>>} ELSE @,
                        !.last = <<"set-admin", email>>,
                        !.runs = @ + 1,
                        !.session = [id |-> 0, role |-> "none", ok |-> TRUE, status |-> 0]]
    /\ AuthFrame

\* create-profile.ts: users.findOne({ email }), then Profile.findOneAndUpdate
\* with upsert; an error is logged
CreateProfile ==
    /\ auth.pc = "open" /\ auth.runs < MaxRuns
    /\ \E email \in Emails :
         LET found == {u \in auth.users : u.email = email}
             user == CHOOSE u \in found : TRUE
             p == [authId |-> user.id, username |-> UsernameOf(email), role |-> "admin"]
             ps == {q \in auth.profiles : q.authId # user.id} \cup {p}
         IN  auth' = [auth EXCEPT
                        !.profiles = IF found # {} /\ ProfileIndexesOK(ps) THEN ps ELSE @,
                        !.ran = IF found # {} /\ ProfileIndexesOK(ps)
                                THEN @ \cup {<<"create-profile", email>>} ELSE @,
                        !.last = <<"create-profile", email>>,
                        !.runs = @ + 1,
                        !.session = [id |-> 0, role |-> "none", ok |-> TRUE, status |-> 0]]
    /\ AuthFrame

\* the users who have signed in, and the profiles there are: none, or one
\* with the default role
InitAuth ==
    /\ tags = {}
    /\ artworks = {}
    /\ store = {}
    /\ nextTagId = 1
    /\ nextArtId = 1
    /\ req = [s \in Slots |-> Fresh]
    /\ wrote = [s \in Slots |-> FALSE]
    /\ listed = <<>>
    /\ dash = NoDash /\ mongo = NoMongo /\ gal = NoGal /\ detail = NoDetail
    /\ \E ids \in SUBSET UserIds, withProfile \in SUBSET UserIds :
         /\ withProfile \subseteq ids
         /\ Cardinality(withProfile) <= 1
         /\ auth = [pc |-> "open",
                    users |-> {[id |-> i, email |-> EmailOfUser(i), role |-> "none"] : i \in ids},
                    profiles |-> {[authId |-> i, username |-> UsernameOf(EmailOfUser(i)),
                                   role |-> "user"] : i \in withProfile},
                    session |-> [id |-> 0, role |-> "none", ok |-> TRUE, status |-> 0],
                    ran |-> {}, last |-> <<"none", "">>, calls |-> 0, runs |-> 0]

NextAuth == SessionCallback \/ SetAdminRole \/ CreateProfile

SpecAuth == InitAuth /\ [][NextAuth]_vars

----------------------------------------------------------------------------
(* Properties *)

Done(s) == req[s].pc = "done"

\* the handlers that only read
Reads(s) == req[s].h = "TagsGET"
Answers(s) == req[s].pc # "done" /\ req'[s].pc = "done"

\* C1: every mutation request of a session whose role is not admin is answered
\* 403 and changes neither collection nor the object store.
C1_NonAdminRejected ==
    \A s \in Slots :
        (Done(s) /\ ~Reads(s) /\ req[s].sess = "user")
            => (req[s].status = 403 /\ ~wrote[s])

\* C2: a mutation request with no session is answered 401 by its first step,
\* before the body is validated and before anything is written.
C2_NoSession401 ==
    \A s \in Slots :
        (req[s].h # "idle" /\ ~Reads(s) /\ req[s].sess = "none")
            => (Done(s) /\ req[s].status = 401 /\ ~wrote[s])

C2_Witness ==
    /\ artworks # {}
    /\ \E s \in Slots :
         /\ Done(s) /\ req[s].sess = "none" /\ req[s].status = 401
         /\ req[s].h = "UploadPOST"
    /\ \E s \in Slots :
         /\ Done(s) /\ req[s].sess = "none" /\ req[s].status = 401
         /\ req[s].h = "GalleryDELETE"

\* C3: no two tag records have the same (label, type) pair, in any state of
\* any interleaving of tag creation, relabelling and the upserts of uploads
\* and edits.
C3_TagPairsUnique ==
    \A t1, t2 \in tags :
        (t1.id # t2.id) => ~(t1.label = t2.label /\ t1.type = t2.type)

\* two POST /api/tags for one new pair both passed findOne; one has inserted,
\* the other was refused by the index
C3_Witness ==
    \E s1, s2 \in Slots :
        /\ s1 # s2
        /\ req[s1].h = "TagsPOST" /\ Done(s1) /\ req[s1].status = 200
        /\ req[s2].h = "TagsPOST" /\ Done(s2) /\ req[s2].err = "DuplicateKey"
        /\ wrote[s1] /\ ~wrote[s2]
        /\ Cardinality(tags) = 1

\* C4: creating a tag (L, T), by POST /api/tags or by an upsert, succeeds
\* whenever no tag with label L and type T exists.
C4_CreateSucceedsWithinType ==
    [][\A s \in Slots :
         /\ (At(s, "TagsPOST", "create") /\ FindTag(req[s].lab, req[s].typ) = {}
                 /\ Answers(s))
             => req'[s].status = 200
         /\ (req[s].pc \in {"cat", "med", "size"} /\ Answers(s))
             => req'[s].status # 500]_vars

\* the name a create or an update step of request s is about to write
NameToWrite(s) ==
    IF req[s].h = "ArtworkPUT" THEN OrSeq(req[s].title, req[s].ex.name)
    ELSE IF req[s].h = "GalleryPUT" /\ req[s].title = <<>>
    THEN (CHOOSE a \in ArtById(req[s].id) : TRUE).name
    ELSE req[s].title

WritesName(s) ==
    /\ req[s].h \in {"UploadPOST", "GalleryPOST", "GalleryPUT", "ArtworkPUT"}
    /\ req[s].pc \in {"create", "update"}
    /\ req[s].pc = "update" => ArtById(req[s].id) # {}

NameTaken(s) ==
    \E a \in artworks :
        /\ a.name = NameToWrite(s)
        /\ req[s].pc = "update" => a.id # req[s].id

\* C5: no two artwork records have the same name; an upload or an edit that
\* would give an artwork a name held by another artwork is rejected and
\* leaves the artwork collection unchanged.
C5_NamesUnique ==
    /\ [](\A a1, a2 \in artworks : a1.id # a2.id => a1.name # a2.name)
    /\ [][\A s \in Slots :
            (WritesName(s) /\ NameTaken(s) /\ Answers(s))
                => (req'[s].status = 500 /\ artworks' = artworks)]_vars

\* an upload and an edit were both refused for a name that is taken
C5_Witness ==
    /\ Cardinality(artworks) = 2
    /\ \E s \in Slots :
         /\ req[s].h = "ArtworkPUT" /\ Done(s) /\ req[s].err = "DuplicateKey"
         /\ ~wrote[s]

\* C6: every stored artwork has a name of at most 60 characters and a
\* description of at most 255 characters, whether written by POST or by PUT.
C6_LengthBounded ==
    \A a \in artworks : Len(a.name) <= NameMax /\ Len(a.description) <= DescMax


\* the tags the references of artwork a point at
RefsOf(a) == {a.medium, a.size} \cup {a.categories[i] : i \in 1..Len(a.categories)}

\* C7: DELETE /api/tags/[id] by an admin on an existing tag answers success
\* whether or not artworks reference the tag, removes that one tag record and
\* leaves every artwork and every other tag as it was.
C7_TagDeleteFrame ==
    [][\A s \in Slots :
         (At(s, "TagDELETE", "delete") /\ TagById(req[s].id) # {} /\ Answers(s))
             => /\ req'[s].status = 200
                /\ tags' = {t \in tags : t.id # req[s].id}
                /\ Cardinality(tags') = Cardinality(tags) - 1
                /\ artworks' = artworks
                /\ store' = store]_vars

\* a tag was deleted while an artwork referenced it
C7_Witness ==
    \E s \in Slots, a \in artworks :
        /\ req[s].h = "TagDELETE" /\ Done(s) /\ req[s].status = 200
        /\ req[s].id \in RefsOf(a)
        /\ TagById(req[s].id) = {}

HasType(id, type) == \E t \in TagById(id) : t.type = type

C9_DeleteDespiteS3Failure ==
    \A s \in Slots :
        (req[s].h = "ArtworkDELETE" /\ Done(s) /\ req[s].sess = "admin"
             /\ req[s].status # 404)
            => (req[s].status = 200 /\ ArtById(req[s].id) = {})

\* the object-store delete failed, the record is gone, the answer is 200
C9_Witness ==
    \E s \in Slots :
        /\ req[s].h = "ArtworkDELETE" /\ Done(s) /\ req[s].s3err
        /\ req[s].status = 200 /\ wrote[s]
        /\ store # {} /\ artworks = {}

\* C10: when an upload is answered 200, the object store holds an object under
\* the key of the new artwork's src and one under the key of its thumbSrc.
C10_UploadStoresBoth ==
    [][\A s \in Slots :
         (req[s].h \in {"UploadPOST", "GalleryPOST"} /\ Answers(s)
              /\ req'[s].status = 200)
             => \E a \in artworks' :
                  /\ a.id = req'[s].newId
                  /\ getKeyFromUrl(a.src) \in store'
                  /\ getKeyFromUrl(a.thumbSrc) \in store']_vars

\* C11: when PUT /api/gallery/[id] changes the title, src and thumbSrc of the
\* artwork point at the keys derived from the new title, objects exist under
\* those keys and none is left under the old keys.
C11_TitleEditRenamesKeys ==
    [][\A s \in Slots :
         (At(s, "ArtworkPUT", "update") /\ Answers(s) /\ req'[s].status = 200
              /\ req[s].title # <<>> /\ req[s].title # req[s].ex.name)
             => \E old \in artworks, a \in artworks' :
                  /\ old.id = req[s].id /\ a.id = req[s].id
                  /\ a.src = UrlOf(ImageKey(sanitizeFilename(req[s].title)))
                  /\ a.thumbSrc = UrlOf(ThumbnailKey(sanitizeFilename(req[s].title)))
                  /\ getKeyFromUrl(a.src) \in store'
                  /\ getKeyFromUrl(a.thumbSrc) \in store'
                  /\ a.src # old.src => getKeyFromUrl(old.src) \notin store'
                  /\ a.thumbSrc # old.thumbSrc
                         => getKeyFromUrl(old.thumbSrc) \notin store']_vars

\* the handlers of /api/gallery/[id] and /api/tags/[id]
ById(s) ==
    req[s].h \in {"GalleryPUT", "GalleryDELETE", "ArtworkPUT", "ArtworkDELETE",
                  "TagPUT", "TagDELETE"}

\* C12: a request on /api/gallery/[id] or /api/tags/[id] that is answered 404
\* has changed neither collection nor the object store.
C12_NotFoundWritesNothing ==
    \A s \in Slots : (ById(s) /\ Done(s) /\ req[s].status = 404) => ~wrote[s]

SameListing(i, j) ==
    listed[i].limit = listed[j].limit /\ listed[i].query = listed[j].query

\* C14: a GET /api/gallery response holds at most limit artworks, total is the
\* number of matching artworks and totalPages is ceil(total/limit); with no
\* write in between, no artwork is on two different pages of one listing and
\* the pages 1..totalPages together hold every matching artwork.
C14_PagesPartition ==
    \A i \in DOMAIN listed :
        LET r == listed[i]
            same == {j \in DOMAIN listed : SameListing(i, j)}
        IN  /\ Len(r.artworks) <= r.limit
            /\ r.total = Cardinality(Matching(r.query))
            /\ r.totalPages * r.limit >= r.total
            /\ (r.totalPages - 1) * r.limit < r.total \/ r.total = 0
            /\ \A j \in same :
                  listed[j].page # r.page
                      => Range(listed[j].artworks) \cap Range(r.artworks) = {}
            /\ (\A p \in 1..r.totalPages : \E j \in same : listed[j].page = p)
                  => UNION {Range(listed[j].artworks) : j \in same}
                        = {a.id : a \in Matching(r.query)}

C16_FailedCreateKeepsTags ==
    [][\A s \in Slots :
         (At(s, "GalleryPOST", "create") /\ Answers(s))
             => /\ (NameTaken(s) \/ Len(req[s].title) > NameMax)
                       => req'[s].status = 500
                /\ req'[s].status # 200
                       => /\ req'[s].status = 500
                          /\ artworks' = artworks
                          /\ tags' = tags
                          /\ store' = store]_vars

\* the only request so far upserted two new tags, then its create was refused
\* for the name of the stored artwork
C16_Witness ==
    /\ \E s \in Slots :
         /\ req[s].h = "GalleryPOST" /\ Done(s) /\ req[s].status = 500
         /\ req[s].err = "DuplicateKey" /\ wrote[s]
         /\ \A r \in Slots \ {s} : req[r].h = "idle"
    /\ artworks = {SeedArtwork}
    /\ SeedTags \subseteq tags /\ Cardinality(tags) = 5

\* the tag type a handler upserts at position pc, and the local that keeps the _id
UpsertType(pc) == IF pc = "cat" THEN "category" ELSE IF pc = "med" THEN "medium" ELSE "size"
UpsertLocal(pc) == IF pc = "cat" THEN "c" ELSE IF pc = "med" THEN "m" ELSE "z"

\* C17: a tag upsert of an upload or an edit either reuses a tag of its type
\* and adds no record, or adds exactly one record, for a label no tag of that
\* type had; either way the handler holds the tag's _id afterwards.
C17_UpsertReusesOrAddsOne ==
    [][\A s \in Slots :
         (req[s].pc \in {"cat", "med", "size"} /\ req'[s] # req[s])
             => LET type == UpsertType(req[s].pc)
                    id == req'[s][UpsertLocal(req[s].pc)]
                IN  \/ /\ tags' = tags
                       /\ \E t \in tags : t.id = id /\ t.type = type
                    \/ /\ Cardinality(tags') = Cardinality(tags) + 1
                       /\ \E t \in tags' \ tags :
                             /\ tags' = tags \cup {t}
                             /\ t.id = id /\ t.type = type
                             /\ FindTag(t.label, type) = {}]_vars

\* C18: during a batch upload the requests go out in file order, each file
\* once, and at most one request is in flight: it is the request of the file
\* the handler is waiting on.
C18_OneAtATimeInOrder ==
    /\ Cardinality(dash.flight) <= 1
    /\ \A f \in dash.flight : dash.pc = "fetch" /\ f.file = dash.i
    /\ \A k \in DOMAIN dash.sent : dash.sent[k] = k
    /\ Len(dash.sent) <= dash.n

\* a batch of MaxFiles files went through, all stored
C18_Witness ==
    /\ dash.pc = "form" /\ dash.n = MaxFiles /\ Len(dash.sent) = MaxFiles
    /\ dash.successCount = MaxFiles /\ Cardinality(artworks) >= MaxFiles

\* C19: once the upload of file i has failed no request is sent for a later
\* file, the artworks of the files before i stay stored, no step removes an
\* artwork, and every submission ends with isUploading false again.
C19_FailureStopsBatch ==
    /\ [](dash.failed # 0
            => /\ \A k \in DOMAIN dash.sent : dash.sent[k] <= dash.failed
               /\ \A k \in 1..(dash.failed - 1) :
                     k \in DOMAIN dash.stored /\ ArtById(dash.stored[k]) # {})
    /\ [][artworks \subseteq artworks']_vars
    /\ [](dash.pc = "form" => ~dash.isUploading)
    /\ (dash.isUploading ~> ~dash.isUploading)

\* the second of three files failed: the first is stored, the third was never sent
C19_Witness ==
    /\ dash.pc = "form" /\ ~dash.isUploading
    /\ dash.n = MaxFiles /\ dash.failed = 2 /\ Len(dash.sent) = 2
    /\ Len(dash.stored) = 1 /\ ArtById(dash.stored[1]) # {}

Pending == {a \in DOMAIN mongo.attempts : mongo.attempts[a] = "pending"}

\* C20: at most one connection attempt is in flight; once a handle is cached
\* it stays, no further attempt is made and every call that returns returns
\* that handle; when a failed attempt has been handled the cached promise is
\* null again, and a promise that is cached is in flight or has succeeded.
C20_OneAttemptCachedHandle ==
    /\ [](Cardinality(Pending) <= 1)
    /\ [](\A c \in DOMAIN mongo.calls :
             mongo.calls[c].st = "returned"
                 => (mongo.calls[c].got = mongo.conn /\ mongo.conn # 0
                       /\ mongo.attempts[mongo.conn] = "ok"))
    /\ []((mongo.jobs = <<>> /\ mongo.conn = 0 /\ Pending = {}) => mongo.promise = 0)
    /\ []((mongo.jobs = <<>> /\ mongo.promise # 0)
             => mongo.attempts[mongo.promise] \in {"pending", "ok"})
    /\ [][mongo.conn # 0
             => (mongo'.conn = mongo.conn /\ mongo'.attempts = mongo.attempts)]_vars

\* two calls shared an attempt that failed, the third made a fresh attempt,
\* the fourth got the handle from the cache
C20_Witness ==
    /\ mongo.attempts = <<"failed", "ok">>
    /\ Len(mongo.calls) >= 4
    /\ mongo.calls[1].st = "threw" /\ mongo.calls[2].st = "threw"
    /\ mongo.calls[2].on = 1
    /\ mongo.calls[3] = [st |-> "returned", on |-> 2, got |-> 2]
    /\ mongo.calls[4] = [st |-> "returned", on |-> 0, got |-> 2]

\* C21: a POST /api/tags that creates no tag because its (label, type) pair
\* exists is answered 400 and leaves the tags as they are, also when the pair
\* was created by a concurrent POST after this request had looked for it.
C21_ExistingPairIs400 ==
    [][\A s \in Slots :
         (req[s].h = "TagsPOST" /\ Answers(s) /\ req[s].sess = "admin"
            /\ FindTag(req[s].lab, req[s].typ) # {})
             => (req'[s].status = 400 /\ tags' = tags)]_vars

\* the artworks the gallery page shows that do not match the selected filter
Strangers == {id \in Range(gal.artworks) : \A a \in Matching(QueryOf(gal.sel)) : a.id # id}

\* C22: once every outstanding request of the gallery page has completed, the
\* list shows only artworks of the filter that is selected: a response to a
\* request made under an earlier filter is not put into the list. Stated for
\* the runs in which no request fails.
C22_OnlyCurrentFilter ==
    (gal.flight = {} /\ gal.failures = 0) => Strangers = {}

RECURSIVE Pages(_, _, _)
Pages(q, p, limit) ==
    IF p = 0 THEN <<>> ELSE Pages(q, p - 1, limit) \o PageOf(q, p, limit).artworks

\* the requests that settle in this step, and whether the step is a success
Settled == gal.flight \ gal'.flight
Succeeds == Settled # {} /\ gal'.failures = gal.failures

\* C23: with the filters never changed, when a page has been loaded and
\* hasMore is evaluated the list is server pages 1..p, each artwork once, and
\* the page counter advances only when the list holds the pages up to it,
\* also after a fetch has failed.
C23_ListIsPagesUpToCounter ==
    [][(gal.selects = 0 /\ gal'.selects = 0)
          => /\ Succeeds
                   => \A f \in Settled :
                         gal'.artworks = Pages(QueryOf(f.sel), f.page, GalleryItemsPerPage)
             /\ gal'.page # gal.page
                   => gal.artworks = Pages(QueryOf(gal.sel), gal.page, GalleryItemsPerPage)]_vars

\* the dashboard's list is at rest: nothing requested, nothing loading
ListSettled == dash.flight = {} /\ ~dash.isLoading /\ ~dash.isLoadingMore

\* C24: with the sentinel in view and no request failing, hasMore stays true
\* while offset + ITEMS_PER_PAGE < total, and the number of loaded artworks
\* eventually equals the total, whatever the total.
C24_LoadsEverything ==
    /\ []((ListSettled /\ dash.session /\ dash.failures = 0
             /\ dash.offset + ITEMS_PER_PAGE < Cardinality(artworks))
            => Truthy(dash.hasMore))
    /\ <>(dash.failures > 0 \/ Len(dash.artworks) = Cardinality(artworks))

\* the artwork the detail page was opened for exists and matches its filter
OpenedMatches == \E a \in Matching(QueryOf(detail.medium)) : a.id = detail.opened

\* C25: the detail page opened for an artwork that exists and matches the
\* filters of its URL shows that artwork and does not go back to the gallery,
\* however many artworks there are, and its list holds every matching artwork.
\* Stated for the runs in which no request fails, before any navigation.
C25_ShowsEveryMatch ==
    (OpenedMatches /\ detail.failures = 0 /\ detail.navs = 0)
        => /\ detail.at = "detail"
           /\ detail.flight = {}
                 => /\ detail.artwork = detail.opened
                    /\ \A a \in Matching(QueryOf(detail.medium)) :
                           a.id \in Range(detail.allArtworks)

RECURSIVE Nexts(_, _, _)
Nexts(list, cur, k) ==
    IF k = 0 THEN cur ELSE NavTarget(list, Nexts(list, cur, k - 1), "next")

\* C26: on the detail page whose non-empty list holds the artwork shown,
\* 'next' from the last artwork goes to the first and 'prev' from the first
\* to the last, 'next' then 'prev' and 'prev' then 'next' come back, as many
\* 'next' as the list is long come back, every target is in the list, and a
\* navigation step goes where navigateToArtwork says.
C26_NavigationIsCyclic ==
    /\ []((detail.pc = "open" /\ detail.allArtworks # <<>>
             /\ detail.artwork \in Range(detail.allArtworks))
            => LET list == detail.allArtworks
                   n == Len(list)
               IN  /\ NavTarget(list, list[n], "next") = list[1]
                   /\ NavTarget(list, list[1], "prev") = list[n]
                   /\ \A x \in Range(list) :
                         /\ NavTarget(list, NavTarget(list, x, "next"), "prev") = x
                         /\ NavTarget(list, NavTarget(list, x, "prev"), "next") = x
                         /\ NavTarget(list, x, "next") \in Range(list)
                         /\ NavTarget(list, x, "prev") \in Range(list)
                         /\ Nexts(list, x, n) = x)
    /\ [][(detail.pc = "open" /\ detail'.id # detail.id)
            => /\ detail.artwork \in Range(detail.allArtworks)
                    => detail'.id \in Range(detail.allArtworks)
               /\ detail'.id = NavTarget(detail.allArtworks, detail.artwork, detail'.last)]_vars

\* the page opened for the last of several artworks, 'next' went to the first,
\* which is now shown
C26_Witness ==
    /\ detail.pc = "open" /\ detail.at = "detail" /\ detail.flight = {}
    /\ Len(detail.allArtworks) >= 3
    /\ detail.opened = detail.allArtworks[Len(detail.allArtworks)]
    /\ detail.navs = 1 /\ detail.last = "next"
    /\ detail.id = detail.allArtworks[1] /\ detail.artwork = detail.id

\* the object key an upload at its s3image or s3thumb position writes
KeyWritten(s) ==
    LET filename == IF req[s].h = "UploadPOST" THEN req[s].file
                    ELSE sanitizeFilename(req[s].title)
    IN  IF req[s].pc = "s3thumb" THEN ThumbnailKey(filename) ELSE ImageKey(filename)

\* the step of request s is a PutObject that succeeded
Puts(s) ==
    /\ req[s].h \in {"UploadPOST", "GalleryPOST"}
    /\ req[s].pc \in {"s3image", "s3thumb"}
    /\ req'[s].pc # req[s].pc /\ req'[s].err = ""

\* C27: artworks with different names have different object keys, for src and
\* for thumbSrc, and no upload writes the object under a key that an existing
\* artwork refers to, so a failing upload cannot overwrite a stored image.
C27_ImageWrittenByOwnUpload ==
    /\ [](\A a1, a2 \in artworks :
             a1.name # a2.name => (a1.src # a2.src /\ a1.thumbSrc # a2.thumbSrc))
    /\ [][\A s \in Slots :
             Puts(s) => \A a \in artworks :
                           /\ getKeyFromUrl(a.src) # KeyWritten(s)
                           /\ getKeyFromUrl(a.thumbSrc) # KeyWritten(s)]_vars

\* the admin profiles there are for the user the session is for
AdminProfile(id) == \E p \in auth.profiles : p.authId = id /\ p.role = "admin"

\* C28: a session has the role admin only if a Profile with the user's id as
\* authId and the role admin exists and was read; without such a profile, or
\* when the lookup fails, the role is user, and checkAdminRole answers 403.
C28_AdminOnlyByProfile ==
    (auth.pc = "open" /\ auth.session.id # 0)
        => /\ auth.session.role \in {"user", "admin"}
           /\ auth.session.role = "admin"
                 <=> (AdminProfile(auth.session.id) /\ auth.session.ok)
           /\ auth.session.role = "user" => auth.session.status = 403
           /\ auth.session.role = "admin" => auth.session.status = 0

\* the profile says admin, the lookup failed: the session is a user's, 403
C28_Witness ==
    /\ auth.pc = "open" /\ auth.session.id # 0
    /\ AdminProfile(auth.session.id) /\ ~auth.session.ok
    /\ auth.session.role = "user" /\ auth.session.status = 403

\* C30: once set-admin, or create-profile, has completed for the email of an
\* existing user, that user's sessions have the role admin and pass
\* checkAdminRole, and a further run of a script for that email changes
\* neither the users nor the profiles.
C30_ScriptsMakeAdmin ==
    /\ []((auth.pc = "open" /\ auth.session.id # 0 /\ auth.session.ok
             /\ \E r \in auth.ran : r[2] = EmailOfUser(auth.session.id))
            => (auth.session.role = "admin" /\ auth.session.status = 0))
    /\ [][(auth.pc = "open" /\ auth'.runs # auth.runs /\ auth'.last \in auth.ran)
            => (auth'.users = auth.users /\ auth'.profiles = auth.profiles)]_vars

\* artwork a refers to the tag with this label of this type
RefersTo(a, label, type) ==
    \E t \in FindTag(label, type) :
        IF type = "category" THEN t.id \in Range(a.categories)
        ELSE IF type = "medium" THEN a.medium = t.id
        ELSE a.size = t.id

\* the artworks a listing with these parameters is to select
Selected(q) ==
    {a \in artworks :
        /\ q.category # "" => RefersTo(a, q.category, "category")
        /\ q.medium # "" => RefersTo(a, q.medium, "medium")
        /\ q.size # "" => RefersTo(a, q.size, "size")}

\* C29: a listing asked with category, medium or size L returns only artworks
\* that refer to the tag L of that type and counts only those in total; when
\* there is no such tag the list is empty and total is 0.
C29_FilterSelects ==
    \A i \in DOMAIN listed :
        /\ \A id \in Range(listed[i].artworks) :
              \E a \in Selected(listed[i].query) : a.id = id
        /\ listed[i].total = Cardinality(Selected(listed[i].query))

====
